---- MODULE Spec2Model ----
(***************************************************************************)
(* UnkrawerterGBA: the offset scanner and candidate classifier             *)
(* (unkrawerter_searchForOffsets), the module reader (readModuleFile),     *)
(* the XM writer (unkrawerter_writeModuleToXM) and the S3M writer          *)
(* (unkrawerter_writeModuleToS3M) of src/unkrawerter.cpp as state          *)
(* machines.  Every component has its own specification over the shared    *)
(* variables; a component that is not running keeps its variables at the   *)
(* idle values.                                                            *)
(*                                                                         *)
(* Conventions: the ROM is a sequence of bytes, offset o is element o + 1; *)
(* the output file is its length and the runs of equal bytes it holds.     *)
(* A loop over a large collection is folded by halves, in loop order.      *)
(* unsigned C integers are reduced modulo 2^width where the code can wrap. *)
(* long is 64 bits wide (LP64), so an fseek to a wrapped uint32_t offset   *)
(* succeeds and lands beyond the end of the file; the model keeps such an  *)
(* offset negative, and a read at a negative offset yields EOF as well.    *)
(* The bytes of a ROM are below 0x80, so that every dword read from it is  *)
(* below 2^31 and (int32_t)x = x.                                          *)
(***************************************************************************)
EXTENDS Integers, Sequences, FiniteSets, TLC

VARIABLES
    pc,                 \* position of the running function
    \* ---- unkrawerter_searchForOffsets
    rom,                \* the ROM file: a sequence of bytes
    threshold,          \* int threshold
    fpos,               \* file position of fp in the scan loop
    feofFlag,           \* feof(fp)
    lastDword,          \* uint32_t lastDword
    startAddress,       \* uint32_t startAddress
    count,              \* uint32_t count
    foundAddressLists,  \* vector of (start, count, type mask)
    retval,             \* OffsetSearchResult
    version,            \* static uint32_t version
    \* ---- main
    args,               \* what the command line gave: options and the ROM path
    offsets,            \* OffsetSearchResult offsets
    calls,              \* the module writers invoked: module offset and format
    exitCode,           \* the value main returned (Running before the return)
    \* ---- readModuleFile
    romModule,          \* the Module header in the ROM: numOrders, order[]
    numOrders,          \* retval->numOrders (unsigned char)
    order,              \* retval->order[] and the bytes of *retval after it
    markerAdd,          \* int markerAdd
    oi,                 \* the loop index i of the marker filter
    \* ---- readPatternFile (the file is rom, its position fpos, its loop
    \*      index row)
    patternRows,        \* unsigned short rows
    s3mlength,          \* unsigned short s3mlength
    fileContents,       \* std::vector<uint8_t> fileContents
    \* ---- the arguments and the environment of the two writers
    mod,                \* Module * mod, as readModuleFile returned it
    samples,            \* the Samples at sampleOffsets[0], [1], ...
    instruments,        \* the Instruments at instrumentOffsets[0], [1], ...
    trimInstruments,    \* bool trimInstruments
    fixCompatibility,   \* bool fixCompatibility
    name,               \* const char * name (<<>> is NULL)
    canOpen,            \* whether fopen(filename, "wb") succeeds
    out,                \* the output file: its length and its runs of bytes
    outPos,             \* ftell(out)
    result,             \* the value returned (Running before the return)
    stderrLog,          \* the messages printed to stderr
    \* ---- the pattern loops of both writers
    patternCount,       \* unsigned char patternCount
    pidx,               \* the pattern index i
    row,                \* int row
    dataPos,            \* data - mod->patterns[i]->data
    warnings,           \* warnings
    \* ---- unkrawerter_writeModuleToXM
    thisrow,            \* Note * thisrow
    memory,             \* struct channel_memory * memory
    speed,              \* unsigned char speed
    sizePos,            \* uint32_t sizePos
    instrumentSizePos,  \* uint32_t instrumentSizePos
    instrumentList,     \* std::vector<unsigned short> instrumentList
    sampleOffsetList,   \* the (instrument, effectop, position) triples recorded
    iidx,               \* position in instrumentList / instrument index i
    patternSizes,       \* per finished pattern: sizePos and endPos
    memAccess,          \* the indices memory[] and thisrow[] were accessed with
    \* ---- unkrawerter_writeModuleToS3M
    instrumentMap,      \* std::map<unsigned short, unsigned char> instrumentMap
    nextInstrument,     \* unsigned char nextInstrument
    paddingBytes,       \* int paddingBytes
    offset,             \* int offset
    blockStarts,        \* ftell(out) where each header, pattern, sample body began
    \* ---- the delta loop of the XM writer
    sdata,              \* s->data
    sk,                 \* uint32_t k
    old                 \* unsigned char old

scanVars == <<rom, threshold, fpos, feofFlag, lastDword, startAddress, count,
              foundAddressLists, retval>>

mainVars == <<args, offsets, calls, exitCode>>

patVars == <<patternRows, s3mlength, fileContents>>

modVars == <<romModule, numOrders, order, markerAdd, oi, patVars>>

jobVars == <<mod, samples, instruments, trimInstruments, fixCompatibility, name,
             canOpen>>

fileVars == <<out, outPos, result, stderrLog>>

loopVars == <<patternCount, pidx, row, dataPos, warnings>>

xmVars == <<thisrow, memory, speed, sizePos, instrumentSizePos, instrumentList,
            sampleOffsetList, iidx, patternSizes, memAccess>>

s3mVars == <<instrumentMap, nextInstrument, paddingBytes, offset, blockStarts>>

deltaVars == <<sdata, sk, old>>

writerVars == <<jobVars, fileVars, loopVars, xmVars, s3mVars, deltaVars>>

vars == <<pc, version, mainVars, scanVars, modVars, writerVars>>

(***************************************************************************)
(* Integer helpers: C's bit operators on non-negative integers.            *)
(***************************************************************************)
RECURSIVE BitAnd(_, _)
BitAnd(a, b) ==
    IF a = 0 \/ b = 0 THEN 0
    ELSE (a % 2) * (b % 2) + 2 * BitAnd(a \div 2, b \div 2)

RECURSIVE BitOr(_, _)
BitOr(a, b) ==
    IF a = 0 THEN b
    ELSE IF b = 0 THEN a
    ELSE (IF a % 2 = 1 \/ b % 2 = 1 THEN 1 ELSE 0) + 2 * BitOr(a \div 2, b \div 2)

Pow2(n) == 2 ^ n

U8(x) == x % 256

U16(x) == x % 65536

Min(a, b) == IF a < b THEN a ELSE b

Max(a, b) == IF a > b THEN a ELSE b

\* b, evaluated once a is known: the two halves of a loop are worked in the
\* order of the loop, the second half does not wait for the first inside it
Then(a, b) == IF a = a THEN b ELSE b

\* the result of fgetc at end of file
EOF == -1

(***************************************************************************)
(* stdio on the ROM.  r is the file's content, p a file position.          *)
(***************************************************************************)
\* fgetc at position p: the byte, or EOF at or beyond the end
Fgetc(r, p) == IF p >= 0 /\ p < Len(r) THEN r[p + 1] ELSE EOF

\* byte k of the little-endian value v
ByteOf(v, k) == (v \div Pow2(8 * k)) % 256

\* fread(&x, n, 1, fp) at position p into a variable holding prev: the bytes the
\* file still has replace the low bytes of x, the others keep their value
RECURSIVE FreadFrom(_, _, _, _, _)
FreadFrom(r, p, n, prev, k) ==
    IF k = n THEN 0
    ELSE (IF p + k < Len(r) THEN r[p + k + 1] ELSE ByteOf(prev, k)) * Pow2(8 * k)
         + FreadFrom(r, p, n, prev, k + 1)

Fread(r, p, n, prev) == FreadFrom(r, p, n, prev, 0)

\* the file position after reading n bytes at p
PosAfterRead(r, p, n) ==
    IF p >= Len(r) THEN p ELSE IF p + n > Len(r) THEN Len(r) ELSE p + n

(***************************************************************************)
(* The pointer predicate of the scan loop (unkrawerter.cpp line 89).       *)
(***************************************************************************)
\* lastDword & 0x08000000
HasRomBit(p) == (p \div 134217728) % 2 = 1

\* lastDword & 0xF6000000: bits 31..28, 26 and 25
HasBadBits(p) == (p \div 268435456) # 0 \/ (p \div 33554432) % 4 # 0

\* lastDword & 0x1ffffff
FileOffset(p) == p % 33554432

\* (uint16_t)(p >> 16) - (uint16_t)(p & 0xffff) < 4 (an int difference) and
\* (p & 0x00ff00ff) == 0x00080008
SmallStride(p) ==
    /\ (p \div 65536) - (p % 65536) < 4
    /\ ByteOf(p, 2) = 8 /\ ByteOf(p, 0) = 8

IsPointer(p, romSize) ==
    /\ HasRomBit(p)
    /\ ~HasBadBits(p)
    /\ FileOffset(p) < romSize
    /\ p # 134744072
    /\ ~SmallStride(p)

(***************************************************************************)
(* The candidate filter (unkrawerter.cpp lines 104-113).                   *)
(***************************************************************************)
\* nums[i]: the i-th dword of the list
ListDword(r, start, i) == Fread(r, start + 4 * i, 4, 0)

\* the remove_if predicate: some consecutive pair of the first min(count, 4)
\* pointers differs by less than 0x10
TooClose(r, cand) ==
    \E i \in 1..(Min(cand.count, 4) - 1) :
        ListDword(r, cand.start, i) - ListDword(r, cand.start, i - 1) < 16

EraseMatches(r, lists) == SelectSeq(lists, LAMBDA c : ~TooClose(r, c))

(***************************************************************************)
(* The structural checks of the classifier (unkrawerter.cpp lines 116-178).*)
(***************************************************************************)
\* fgetc(fp) & 0xfe is non-zero (EOF is -1: all bits set)
NotBoolean(c) == c = EOF \/ c \div 2 # 0

\* 0x20040707: versions below it use the 2003 pattern format
VersionCutoff == 537134855

\* version < 0x20040707 for a uint32_t version; the values from 2^31 up are
\* held as negative numbers
BelowCutoff(ver) == ver >= 0 /\ ver < VersionCutoff

\* the row count of the first pattern: one byte before 2004-07-07, else two
PatternRowsField(r, q, ver) ==
    IF BelowCutoff(ver) THEN U16(Fgetc(r, q) + 65536) ELSE Fread(r, q, 2, 0)

\* lines 118-137: the list is the pattern table of a Module that starts 364
\* bytes before it (its channels field lies 8 bytes before the list)
ModuleCheck(r, start, ver) ==
    LET h    == start - 8
        chn  == Fgetc(r, h)
        ord  == Fgetc(r, h + 1)
        tmp  == Fread(r, h + 8, 4, ord)
        q    == FileOffset(tmp)
        rows == PatternRowsField(r, q + 32, ver)
    IN  /\ ~(chn = EOF \/ chn = 0 \/ chn > 16)
        /\ ~(ord = EOF \/ ord < 30 \/ ord > 200)
        /\ \A i \in 0..4 : ~NotBoolean(Fgetc(r, h + 2 + i))
        /\ Fgetc(r, h + 7) = 0
        /\ Fgetc(r, q) = 0 /\ Fgetc(r, q + 1) = 0
        /\ Fgetc(r, q + 3) = 0
        /\ ~(rows > 256 \/ rows % 8 # 0)

\* lines 140-151 for the i-th pointer of the list
SampleCheckAt(r, start, i) ==
    LET addr == Fread(r, start + 4 * i, 4, 0)
        a    == FileOffset(addr)
        tmp  == Fread(r, a, 4, 0)
        end  == Fread(r, a + 4, 4, 0)
        freq == Fread(r, a + 8, 4, tmp)
    IN  /\ HasRomBit(end)
        /\ ~HasBadBits(end)
        /\ ~(end <= addr + 18)
        /\ ~(tmp > end - addr - 18)
        /\ ~(freq > 65535)
        /\ ~NotBoolean(Fgetc(r, a + 16))
        /\ ~NotBoolean(Fgetc(r, a + 17))

SampleCheck(r, start, cnt) ==
    \A i \in 0..(Min(cnt, 4) - 1) : SampleCheckAt(r, start, i)

\* lines 160-164: the sample map from entry i on; last is the entry before
RECURSIVE SampleMapOk(_, _, _, _)
SampleMapOk(r, a, i, last) ==
    IF i = 96 THEN TRUE
    ELSE LET tmp  == Fread(r, a + 2 * i, 2, last)
             diff == IF tmp >= last THEN tmp - last ELSE last - tmp
         IN  IF (tmp > 256 \/ (i > 0 /\ diff > 16)) /\ i < 94
             THEN FALSE
             ELSE SampleMapOk(r, a, i + 1, tmp)

\* lines 166-175: fgetc(fp) > 12 on the second and third byte after each
\* envelope's 48 bytes of nodes (EOF is -1 and passes)
EnvelopeOk(r, e) == ~(Fgetc(r, e + 49) > 12) /\ ~(Fgetc(r, e + 50) > 12)

InstrumentCheckAt(r, start, n) ==
    LET addr == Fread(r, start + 4 * n, 4, 0)
        a    == FileOffset(addr)
    IN  /\ SampleMapOk(r, a, 0, 0)
        /\ EnvelopeOk(r, a + 192)
        /\ EnvelopeOk(r, a + 244)

InstrumentCheck(r, start, cnt) ==
    \A n \in 0..(Min(cnt, 4) - 1) : InstrumentCheckAt(r, start, n)

\* possible_mask: bit 0 module, bit 1 sample, bit 2 instrument
PossibleMask(r, cand, ver) ==
    (IF ModuleCheck(r, cand.start, ver) THEN 1 ELSE 0)
    + (IF SampleCheck(r, cand.start, cand.count) THEN 2 ELSE 0)
    + (IF InstrumentCheck(r, cand.start, cand.count) THEN 4 ELSE 0)

Classify(r, lists, ver) ==
    [i \in 1..Len(lists) |->
        [lists[i] EXCEPT !.mask = PossibleMask(r, lists[i], ver)]]

(***************************************************************************)
(* Selection (unkrawerter.cpp lines 183-199).                              *)
(***************************************************************************)
EmptyResult ==
    [success |-> FALSE, instrumentAddr |-> 0, instrumentCount |-> 0,
     sampleAddr |-> 0, sampleCount |-> 0, modules |-> <<>>]

\* SelectOne testing the type's bit instead of comparing the whole mask
SelectOneByBit(res, p) ==
    IF p.mask % 2 = 1 THEN [res EXCEPT !.modules = Append(@, p.start)]
    ELSE IF (p.mask \div 2) % 2 = 1 /\ p.count > res.sampleCount
         THEN [res EXCEPT !.sampleCount = p.count, !.sampleAddr = p.start]
    ELSE IF (p.mask \div 4) % 2 = 1 /\ p.count > res.instrumentCount
         THEN [res EXCEPT !.instrumentCount = p.count, !.instrumentAddr = p.start]
    ELSE res

\* one round of the loop of lines 184-188
SelectOne(res, p) ==
    IF p.mask = 1 THEN [res EXCEPT !.modules = Append(@, p.start)]
    ELSE IF p.mask = 2 /\ p.count > res.sampleCount
         THEN [res EXCEPT !.sampleCount = p.count, !.sampleAddr = p.start]
    ELSE IF p.mask = 4 /\ p.count > res.instrumentCount
         THEN [res EXCEPT !.instrumentCount = p.count, !.instrumentAddr = p.start]
    ELSE res

RECURSIVE SelectFrom(_, _, _)
SelectFrom(res, lists, i) ==
    IF i > Len(lists) THEN res
    ELSE SelectFrom(SelectOne(res, lists[i]), lists, i + 1)

\* lines 193-198: the module header lies 364 bytes before its pattern table
FilterResults(lists) ==
    LET res == SelectFrom(EmptyResult, lists, 1)
        mods == [i \in 1..Len(res.modules) |-> FileOffset(res.modules[i]) - 364]
    IN  [res EXCEPT !.modules = mods,
                    !.success = (res.sampleAddr # 0 /\ Len(res.modules) > 0)]

(***************************************************************************)
(* unkrawerter_searchForOffsets as a state machine.                        *)
(***************************************************************************)
\* count >= threshold: the int threshold is converted to unsigned, so a
\* negative threshold is never reached
ReachesThreshold(cnt, t) == t >= 0 /\ cnt >= t

\* one round of the scan loop (lines 87-102): fread, then the if chain
ScanStep ==
    /\ pc = "scan"
    /\ ~feofFlag
    /\ LET dword == Fread(rom, fpos, 4, lastDword)
           after == PosAfterRead(rom, fpos, 4)
       IN  /\ lastDword' = dword
           /\ fpos' = after
           /\ feofFlag' = (fpos + 4 > Len(rom))
           /\ IF IsPointer(dword, Len(rom))
              THEN /\ startAddress' =
                          IF startAddress = 0 \/ count = 0 THEN after - 4
                          ELSE startAddress
                   /\ count' = count + 1
                   /\ UNCHANGED foundAddressLists
              ELSE IF ReachesThreshold(count, threshold) /\ count < 1024
              THEN /\ foundAddressLists' = Append(foundAddressLists,
                          [start |-> startAddress, count |-> count, mask |-> 0])
                   /\ startAddress' = 0
                   /\ count' = 0
              ELSE /\ startAddress' = (IF count > 0 THEN 0 ELSE startAddress)
                   /\ count' = 0
                   /\ UNCHANGED foundAddressLists
    /\ UNCHANGED <<pc, mainVars, version, rom, threshold, retval, modVars, writerVars>>

\* the loop ends at end of file
ScanDone ==
    /\ pc = "scan"
    /\ feofFlag
    /\ pc' = "erase"
    /\ UNCHANGED <<mainVars, version, scanVars, modVars, writerVars>>

\* lines 104-113
EraseStep ==
    /\ pc = "erase"
    /\ foundAddressLists' = EraseMatches(rom, foundAddressLists)
    /\ pc' = "classify"
    /\ UNCHANGED <<mainVars, version, rom, threshold, fpos, feofFlag, lastDword, startAddress,
                   count, retval, modVars, writerVars>>

\* lines 115-178
ClassifyStep ==
    /\ pc = "classify"
    /\ foundAddressLists' = Classify(rom, foundAddressLists, version)
    /\ pc' = "select"
    /\ UNCHANGED <<mainVars, version, rom, threshold, fpos, feofFlag, lastDword, startAddress,
                   count, retval, modVars, writerVars>>

\* lines 183-199
SelectStep ==
    /\ pc = "select"
    /\ retval' = FilterResults(foundAddressLists)
    /\ pc' = "searched"
    /\ UNCHANGED <<mainVars, version, rom, threshold, fpos, feofFlag, lastDword, startAddress,
                   count, foundAddressLists, modVars, writerVars>>

(***************************************************************************)
(* The values the variables of a component keep while it is not running.   *)
(***************************************************************************)
IdleScan ==
    /\ rom = <<>>
    /\ threshold = 0
    /\ fpos = 0
    /\ feofFlag = FALSE
    /\ lastDword = 0
    /\ startAddress = 0
    /\ count = 0
    /\ foundAddressLists = <<>>
    /\ retval = EmptyResult

\* result and exitCode before the function has returned
Running == -1

NoArguments ==
    [help |-> FALSE, badOption |-> 0, romPath |-> FALSE, canRead |-> FALSE,
     k |-> FALSE, moduleType |-> -1, sampleAddr |-> 0, instrumentAddr |-> 0,
     additionalModules |-> <<>>]

IdleMain ==
    /\ args = NoArguments
    /\ offsets = EmptyResult
    /\ calls = <<>>
    /\ exitCode = Running

IdlePattern ==
    /\ patternRows = 0
    /\ s3mlength = 0
    /\ fileContents = <<>>

IdleMod ==
    /\ romModule = [numOrders |-> 0, order |-> <<>>]
    /\ numOrders = 0
    /\ order = <<>>
    /\ markerAdd = 0
    /\ oi = 0
    /\ IdlePattern

NoModule == [channels |-> 0]

IdleJob ==
    /\ mod = NoModule
    /\ samples = <<>>
    /\ instruments = <<>>
    /\ trimInstruments = FALSE
    /\ fixCompatibility = FALSE
    /\ name = <<>>
    /\ canOpen = FALSE

\* A file is its length and its bytes as runs <<b, n>> of n equal bytes b,
\* neighbouring runs holding different bytes.
EmptyFile == [len |-> 0, runs |-> <<>>]

IdleFile ==
    /\ out = EmptyFile
    /\ outPos = 0
    /\ result = Running
    /\ stderrLog = <<>>

IdleLoops ==
    /\ patternCount = 0
    /\ pidx = 0
    /\ row = 0
    /\ dataPos = 0
    /\ warnings = 0

IdleXM ==
    /\ thisrow = <<>>
    /\ memory = <<>>
    /\ speed = 0
    /\ sizePos = 0
    /\ instrumentSizePos = 0
    /\ instrumentList = <<>>
    /\ sampleOffsetList = <<>>
    /\ iidx = 0
    /\ patternSizes = <<>>
    /\ memAccess = {}

IdleS3M ==
    /\ instrumentMap = <<>>
    /\ nextInstrument = 0
    /\ paddingBytes = 0
    /\ offset = 0
    /\ blockStarts = <<>>

IdleDelta ==
    /\ sdata = <<>>
    /\ sk = 0
    /\ old = 0

IdleWriter == IdleJob /\ IdleFile /\ IdleLoops /\ IdleXM /\ IdleS3M /\ IdleDelta

(***************************************************************************)
(* The ROMs the scanner is run on.                                         *)
(***************************************************************************)
\* bounds of the input
MaxRomDwords == 5

MaxThreshold == 4

MaxPtrs == 3

\* the version keys tried: the last legacy one and the default (0x20050421)
LegacyVersion == VersionCutoff - 1

DefaultVersion == 537199649

Versions == {LegacyVersion, DefaultVersion}

LE32(v) ==
    <<v % 256, (v \div 256) % 256, (v \div 65536) % 256, (v \div 16777216) % 256>>

\* a pointer to file offset off: 0x08000000 + off
Ptr(off) == 134217728 + off

Zeros(n) == [i \in 1..n |-> 0]

Filled(n, b) == [i \in 1..n |-> b]

RECURSIVE Concat(_)
Concat(ss) == IF ss = <<>> THEN <<>> ELSE Head(ss) \o Concat(Tail(ss))

\* all sequences over S of length n
RECURSIVE SeqsOfLen(_, _)
SeqsOfLen(S, n) ==
    IF n = 0 THEN {<<>>}
    ELSE {Append(q, x) : q \in SeqsOfLen(S, n - 1), x \in S}

\* short ROMs: every sequence of up to MaxRomDwords dwords, each a pointer into
\* the ROM or not a pointer
ScanDwords == {Ptr(0), Ptr(4), 0}

SmallRoms ==
    {Concat([i \in 1..Len(q) |-> LE32(q[i])]) :
        q \in UNION {SeqsOfLen(ScanDwords, n) : n \in 0..MaxRomDwords}}

\* ROMs with a pointer list of n entries around the 1024 limit of line 93
LongRom(n) ==
    [i \in 1..(4 * n + 8) |->
        IF i <= 4 \/ i > 4 * n + 4 THEN 0 ELSE LE32(Ptr(0))[((i - 1) % 4) + 1]]

LongRoms == {LongRom(1023), LongRom(1024)}

\* the last 8 bytes of a Module header (channels, numOrders, 5 flags, padding)
ModuleTail == <<4, 32, 0, 1, 0, 0, 0, 0>>

\* a Sample at file offset at: header (18 bytes), 8 bytes of data, padding
SampleImage(at) ==
    LE32(0) \o LE32(Ptr(at + 26)) \o LE32(8192) \o <<0, 0, 64, 0, 1, 0>>
    \o <<1, 2, 3, 4, 5, 6, 7, 8>> \o Zeros(6)

\* a Pattern header: length, s3mlength, index[16] (index[0] = 512), rows = 64
PatternImage == <<0, 0, 0, 0, 0, 2>> \o Zeros(26) \o <<64, 0>> \o Zeros(14)

\* the distance between the pointees of a block of each kind
Stride(kind) ==
    CASE kind = "sample" -> 32
      [] kind = "pattern" -> 48
      [] OTHER -> 16

\* n pointees of one kind, laid out from file offset at
Pointees(kind, n, at) ==
    CASE kind = "sample" -> Concat([i \in 1..n |-> SampleImage(at + 32 * (i - 1))])
      [] kind = "pattern" -> Concat([i \in 1..n |-> PatternImage])
      [] kind = "zero" -> Zeros(16 * (n - 1) + 296)
      [] OTHER -> Filled(16 * n, 127)

\* a block at file offset base: 8 bytes (a module header's tail or zeros), a
\* list of n pointers, a zero dword, and the pointees
Block(base, hdr, kind, n) ==
    LET at == base + 8 + 4 * n + 4
    IN  (IF hdr = "module" THEN ModuleTail ELSE Zeros(8))
        \o Concat([i \in 1..n |-> LE32(Ptr(at + Stride(kind) * (i - 1)))])
        \o LE32(0)
        \o Pointees(kind, n, at)

BlockKinds == {"module", "none"} \X {"sample", "pattern", "zero", "junk"}

\* ROMs of one block, and of a block of each kind followed by a sample list
StructRoms ==
    {Block(0, k[1], k[2], n) : k \in BlockKinds, n \in 2..MaxPtrs}
    \cup {LET b == Block(0, k[1], k[2], 2)
          IN  b \o Block(Len(b), "none", "sample", n) :
              k \in BlockKinds, n \in 2..MaxPtrs}

Thresholds == (-1)..MaxThreshold

InitScan ==
    /\ pc = "scan"
    /\ version \in Versions
    /\ IdleMain
    /\ \/ rom \in SmallRoms /\ threshold \in Thresholds
       \/ rom \in LongRoms /\ threshold = 4
       \/ rom \in StructRoms /\ threshold = 2
    /\ fpos = 0
    /\ feofFlag = FALSE
    /\ lastDword = 0
    /\ startAddress = 0
    /\ count = 0
    /\ foundAddressLists = <<>>
    /\ retval = EmptyResult
    /\ IdleMod
    /\ IdleWriter

NextScan == ScanStep \/ ScanDone \/ EraseStep \/ ClassifyStep \/ SelectStep

SpecScan == InitScan /\ [][NextScan]_vars

(***************************************************************************)
(* Claims about the scanner and the classifier.                            *)
(***************************************************************************)
\* the count dwords of a candidate all satisfy the pointer predicate, and the
\* count lies in [threshold, 1024)
CandidateSound(c) ==
    /\ threshold <= c.count
    /\ c.count < 1024
    /\ \A k \in 0..(c.count - 1) : IsPointer(ListDword(rom, c.start, k), Len(rom))

\* C1: scanner soundness: every candidate (startOffset, count) the scan loop
\* emits has threshold <= count < 1024, and each of the count dwords at
\* startOffset, startOffset + 4, ... satisfies the pointer predicate.
\* Violated: a run that begins at file offset 0 is emitted with start 4.
C1_ScannerSoundness ==
    \A i \in 1..Len(foundAddressLists) : CandidateSound(foundAddressLists[i])

\* some candidate of type mask m starts at s with n entries
HasCandidate(m, s, n) ==
    \E j \in 1..Len(foundAddressLists) :
        /\ foundAddressLists[j].mask = m
        /\ foundAddressLists[j].start = s
        /\ foundAddressLists[j].count = n

\* C2: classifier singletonicity: every module address, the sample list and
\* the instrument list of the result come from a candidate whose type mask is
\* exactly 1, 2 or 4 respectively; a candidate whose mask is 0 or has several
\* bits set contributes nothing.
C2_ClassifierSingleton ==
    pc = "searched" =>
        /\ \A i \in 1..Len(retval.modules) :
              \E j \in 1..Len(foundAddressLists) :
                  /\ foundAddressLists[j].mask = 1
                  /\ FileOffset(foundAddressLists[j].start) - 364 = retval.modules[i]
        /\ Len(retval.modules)
              = Cardinality({j \in 1..Len(foundAddressLists) : foundAddressLists[j].mask = 1})
        /\ retval.sampleCount # 0
              => HasCandidate(2, retval.sampleAddr, retval.sampleCount)
        /\ retval.instrumentCount # 0
              => HasCandidate(4, retval.instrumentAddr, retval.instrumentCount)
        /\ retval.sampleCount = 0 => retval.sampleAddr = 0
        /\ retval.instrumentCount = 0 => retval.instrumentAddr = 0

\* a search that ended with a sample list chosen although a candidate with
\* several type bits (module and sample) was in the list
C2_Witness ==
    /\ pc = "searched"
    /\ retval.sampleAddr # 0
    /\ \E j \in 1..Len(foundAddressLists) : foundAddressLists[j].mask = 3

(***************************************************************************)
(* readModuleFile: the 254 marker filter (unkrawerter.cpp lines 364-374).  *)
(* order holds order[0], order[1], ... up to a modelled length; the bytes  *)
(* of the zeroed, 364-byte Module image after that are zero.               *)
(***************************************************************************)
\* retval->order[k]
OrderAt(o, k) == IF k < Len(o) THEN o[k + 1] ELSE 0

\* line 372: the first index from j on whose entry is not 254
RECURSIVE SkipMarkers(_, _)
SkipMarkers(o, j) == IF OrderAt(o, j) = 254 THEN SkipMarkers(o, j + 1) ELSE j

\* lines 371-372 for one i: the new markerAdd
NextMarkerAdd(o, i, add) == SkipMarkers(o, i + add) - i

\* line 374: numOrders -= markerAdd in unsigned char
SubtractMarkers(n, add) == (((n - add) % 256) + 256) % 256

\* line 368: fread(retval, 364, 1, fp)
ReadHeader ==
    /\ pc = "readmodule"
    /\ numOrders' = romModule.numOrders
    /\ order' = romModule.order
    /\ markerAdd' = 0
    /\ oi' = 0
    /\ pc' = "filter"
    /\ UNCHANGED <<mainVars, version, scanVars, romModule, patVars, writerVars>>

\* one round of the for loop of lines 370-373
FilterStep ==
    /\ pc = "filter"
    /\ oi < numOrders
    /\ LET add == NextMarkerAdd(order, oi, markerAdd)
       IN  /\ markerAdd' = add
           /\ order' = [order EXCEPT ![oi + 1] = OrderAt(order, oi + add)]
    /\ oi' = oi + 1
    /\ UNCHANGED <<pc, mainVars, version, scanVars, romModule, numOrders, patVars,
                   writerVars>>

\* the loop ends; line 374
FilterDone ==
    /\ pc = "filter"
    /\ ~(oi < numOrders)
    /\ numOrders' = SubtractMarkers(numOrders, markerAdd)
    /\ pc' = "filtered"
    /\ UNCHANGED <<mainVars, version, scanVars, romModule, order, markerAdd, oi,
                   patVars, writerVars>>

\* bounds of the Module headers tried: the in-ROM order count, and the number
\* of order entries after it that are drawn freely (the rest is zero)
MaxOrders == 3

OrderSlack == 2

OrderValues == {0, 1, 254, 255}

RomModules ==
    {[numOrders |-> n, order |-> o] :
        n \in 0..MaxOrders, o \in SeqsOfLen(OrderValues, MaxOrders + OrderSlack)}

InitMod ==
    /\ pc = "readmodule"
    /\ version = DefaultVersion
    /\ IdleScan
    /\ IdleMain
    /\ romModule \in RomModules
    /\ numOrders = 0
    /\ order = <<>>
    /\ markerAdd = 0
    /\ oi = 0
    /\ IdlePattern
    /\ IdleWriter

NextMod == ReadHeader \/ FilterStep \/ FilterDone

SpecMod == InitMod /\ [][NextMod]_vars

(***************************************************************************)
(* Claims about readModuleFile.                                            *)
(***************************************************************************)
\* the entries of o[1..n] that are not 254, in order
RECURSIVE WithoutMarkers(_, _)
WithoutMarkers(o, n) ==
    IF n = 0 THEN <<>>
    ELSE IF o[n] = 254 THEN WithoutMarkers(o, n - 1)
    ELSE Append(WithoutMarkers(o, n - 1), o[n])

\* C3: order filtering: in the Module readModuleFile returns, 254 does not
\* appear at any index below the effective numOrders.
\* Violated: markers after the in-ROM numOrders make numOrders wrap.
C3_OrderFiltering ==
    pc = "filtered" => \A k \in 0..(numOrders - 1) : OrderAt(order, k) # 254

\* C4: the effective order table is the first in-ROM numOrders entries with
\* every 254 removed, and the effective numOrders is the in-ROM numOrders
\* minus the number of 254 among them.
\* Violated: the loop also consumes markers that lie after the in-ROM numOrders.
C4_OrderTableExact ==
    pc = "filtered" =>
        LET kept == WithoutMarkers(romModule.order, romModule.numOrders)
        IN  /\ numOrders = Len(kept)
            /\ \A k \in 1..Len(kept) : order[k] = kept[k]

(***************************************************************************)
(* The output file and the pattern reader.                                 *)
(***************************************************************************)
LE16(v) == <<v % 256, v \div 256>>

\* the runs a followed by the runs b
JoinRuns(a, b) ==
    IF a = <<>> THEN b
    ELSE IF b = <<>> THEN a
    ELSE IF a[Len(a)][1] = b[1][1]
    THEN SubSeq(a, 1, Len(a) - 1)
         \o <<<<b[1][1], a[Len(a)][2] + b[1][2]>>>> \o Tail(b)
    ELSE a \o b

\* the runs of the bytes bs[lo..hi]
RECURSIVE RunsOf(_, _, _)
RunsOf(bs, lo, hi) ==
    IF lo > hi THEN <<>>
    ELSE IF lo = hi THEN <<<<bs[lo], 1>>>>
    ELSE LET mid == (lo + hi) \div 2
         IN  JoinRuns(RunsOf(bs, lo, mid), RunsOf(bs, mid + 1, hi))

\* the run that holds position p: its index k and the position it starts at
RECURSIVE RunAt(_, _, _, _)
RunAt(runs, k, start, p) ==
    IF p < start + runs[k][2] THEN [k |-> k, start |-> start]
    ELSE RunAt(runs, k + 1, start + runs[k][2], p)

\* the byte at position p of the file f
ByteAt(f, p) == f.runs[RunAt(f.runs, 1, 0, p).k][1]

\* fputc of b at position p <= f.len
PutByte(f, p, b) ==
    IF p = f.len
    THEN [len |-> f.len + 1, runs |-> JoinRuns(f.runs, <<<<b, 1>>>>)]
    ELSE LET at    == RunAt(f.runs, 1, 0, p)
             r     == f.runs[at.k]
             left  == IF p > at.start THEN <<<<r[1], p - at.start>>>> ELSE <<>>
             right == IF p < at.start + r[2] - 1
                      THEN <<<<r[1], at.start + r[2] - 1 - p>>>> ELSE <<>>
         IN  IF r[1] = b THEN f
             ELSE [f EXCEPT !.runs =
                      JoinRuns(JoinRuns(SubSeq(f.runs, 1, at.k - 1),
                                        left \o <<<<b, 1>>>> \o right),
                               SubSeq(f.runs, at.k + 1, Len(f.runs)))]

\* fwrite/fputc of the bytes bs at position p of the file f
RECURSIVE WriteAt(_, _, _)
WriteAt(f, p, bs) ==
    IF p = f.len
    THEN [len |-> f.len + Len(bs), runs |-> JoinRuns(f.runs, RunsOf(bs, 1, Len(bs)))]
    ELSE IF bs = <<>> THEN f
    ELSE WriteAt(PutByte(f, p, bs[1]), p + 1, Tail(bs))

\* fwrite of the bytes bs at the end of the file f
Put(f, bs) == WriteAt(f, f.len, bs)

\* the stream: the file and its position
Positioned(f, p) == [file |-> f, pos |-> p]

\* fseek(out, p, SEEK_SET)
Seek(fp, p) == [fp EXCEPT !.pos = p]

\* fwrite/fputc of the bytes bs at the position of the stream
Write(fp, bs) == [file |-> WriteAt(fp.file, fp.pos, bs), pos |-> fp.pos + Len(bs)]

\* the back-patch without the fseek that returns to endPos
BackPatchNoReturn(fp, at, bs) == Write(Seek(fp, at), bs)

\* lines 865-869 and 873-877: endPos = ftell(out), fseek to the recorded
\* position, fwrite, fseek back to endPos
BackPatch(fp, at, bs) == Seek(Write(Seek(fp, at), bs), fp.pos)

\* the 16-bit little-endian value at position p of the file f
U16At(f, p) == ByteAt(f, p) + 256 * ByteAt(f, p + 1)

\* x with the bits of m cleared: x & ~m
ClearBits(x, m) == x - BitAnd(x, m)

HiNibble(x) == (x \div 16) * 16

LoNibble(x) == x % 16

\* (int)(signed char)b for a byte b
SignedChar(b) == IF b >= 128 THEN b - 256 ELSE b

\* the bytes of an entry whose follow byte is at position p of d: lines 329-348
EntryNoteBytes(d, p, legacy) ==
    IF BitAnd(d[p + 1], 32) = 0 THEN 0
    ELSE IF ~legacy /\ d[p + 2] >= 128 THEN 3 ELSE 2

EntryLength(d, p, legacy) ==
    1 + EntryNoteBytes(d, p, legacy)
      + (IF BitAnd(d[p + 1], 64) # 0 THEN 1 ELSE 0)
      + (IF BitAnd(d[p + 1], 128) # 0 THEN 2 ELSE 0)

EntryS3MLength(d, p) ==
    1 + (IF BitAnd(d[p + 1], 32) # 0 THEN 2 ELSE 0)
      + (IF BitAnd(d[p + 1], 64) # 0 THEN 1 ELSE 0)
      + (IF BitAnd(d[p + 1], 128) # 0 THEN 2 ELSE 0)

\* one round of the loop of lines 327-350: st holds the position p, the rows
\* n still to end and s3mlength.  fgetc at the end of the file yields 0xFF for
\* ever, so the loop does not end there (hang).
PatternStep(d, st, legacy) ==
    IF st.n = 0 \/ st.hang THEN st
    ELSE IF st.p >= Len(d) THEN [st EXCEPT !.hang = TRUE]
    ELSE IF d[st.p + 1] = 0
    THEN [p |-> st.p + 1, n |-> st.n - 1, s3mlength |-> U16(st.s3mlength + 1),
          hang |-> FALSE]
    ELSE IF st.p + EntryLength(d, st.p, legacy) > Len(d)
    THEN [st EXCEPT !.hang = TRUE]
    ELSE [p |-> st.p + EntryLength(d, st.p, legacy), n |-> st.n,
          s3mlength |-> U16(st.s3mlength + EntryS3MLength(d, st.p)),
          hang |-> FALSE]

\* k rounds of the loop
RECURSIVE PatternSteps(_, _, _, _)
PatternSteps(d, st, legacy, k) ==
    IF k = 0 THEN st ELSE PatternSteps(d, PatternStep(d, st, legacy), legacy, k - 1)

\* the loop of lines 327-350, sixteen rounds at a time
RECURSIVE PatternScan(_, _, _)
PatternScan(d, st, legacy) ==
    IF st.n = 0 \/ st.hang THEN st
    ELSE PatternScan(d, PatternSteps(d, st, legacy, 16), legacy)

\* readPatternFile on the bytes d that follow the 32 index bytes of a Pattern
ReadPatternFile(d, legacy) ==
    LET rowsLen == IF legacy THEN 1 ELSE 2
        rows    == IF legacy THEN d[1] ELSE d[1] + 256 * d[2]
        scan    == PatternScan(d, [p |-> rowsLen, n |-> rows, s3mlength |-> 0,
                                   hang |-> FALSE], legacy)
    IN  [rows      |-> rows,
         s3mlength |-> scan.s3mlength,
         length    |-> U16(scan.p - rowsLen),
         data      |-> SubSeq(d, rowsLen + 1, scan.p),
         hang      |-> scan.hang]

(***************************************************************************)
(* unkrawerter_writeModuleToXM: the conversion of one pattern entry.       *)
(***************************************************************************)
\* effectMap_xm: (first, second) for the effects 0..50
EffectMapXM == <<
    <<65535, 255>>, <<3840, 255>>, <<3840, 255>>, <<3840, 255>>, <<2816, 255>>, <<3328, 255>>,
    <<2560, 255>>, <<2560, 255>>, <<3760, 15>>, <<3744, 15>>, <<512, 255>>, <<512, 255>>,
    <<3616, 15>>, <<8480, 15>>, <<256, 255>>, <<256, 255>>, <<3600, 15>>, <<8464, 15>>,
    <<3072, 255>>, <<768, 255>>, <<1024, 255>>, <<7424, 255>>, <<0, 255>>, <<1536, 255>>,
    <<1280, 255>>, <<65535, 255>>, <<65535, 255>>, <<2304, 255>>, <<6400, 255>>, <<6912, 255>>,
    <<1792, 255>>, <<65535, 255>>, <<4096, 255>>, <<4352, 255>>, <<2048, 255>>, <<8704, 255>>,
    <<65535, 255>>, <<3632, 15>>, <<3648, 15>>, <<3696, 15>>, <<8528, 15>>, <<8544, 15>>,
    <<3712, 15>>, <<3680, 15>>, <<3776, 15>>, <<3792, 15>>, <<3808, 15>>, <<5376, 255>>,
    <<65535, 255>>, <<1536, 255>>, <<1280, 255>> >>

\* effectMap_s3m
EffectMapS3M == <<
    <<65280, 0>>, <<256, 255>>, <<5120, 255>>, <<65280, 255>>, <<512, 255>>, <<768, 255>>,
    <<1024, 255>>, <<1024, 255>>, <<1264, 15>>, <<1039, 240>>, <<1280, 255>>, <<1280, 255>>,
    <<1520, 15>>, <<1504, 15>>, <<1536, 255>>, <<1536, 255>>, <<1776, 15>>, <<1760, 15>>,
    <<65280, 0>>, <<1792, 255>>, <<2048, 255>>, <<2304, 255>>, <<2560, 255>>, <<2816, 255>>,
    <<3072, 255>>, <<3328, 255>>, <<3584, 255>>, <<3840, 255>>, <<4096, 255>>, <<4352, 255>>,
    <<4608, 255>>, <<5376, 255>>, <<5632, 255>>, <<5888, 255>>, <<6144, 255>>, <<6400, 255>>,
    <<65280, 0>>, <<4880, 15>>, <<4912, 15>>, <<4928, 15>>, <<4944, 15>>, <<4960, 15>>,
    <<4992, 15>>, <<5040, 15>>, <<5056, 15>>, <<5072, 15>>, <<5088, 15>>, <<65280, 0>>,
    <<5024, 255>>, <<2816, 255>>, <<3072, 255>> >>

\* the default 64-byte XM header of line 572
XmHeaderText == <<
    69, 120, 116, 101, 110, 100, 101, 100, 32, 77, 111, 100, 117, 108, 101, 58,
    32, 75, 114, 97, 119, 97, 108, 108, 32, 99, 111, 110, 118, 101, 114, 115,
    105, 111, 110, 32, 32, 26, 85, 110, 107, 114, 97, 119, 101, 114, 116, 101,
    114, 71, 66, 65, 32, 32, 32, 32, 32, 32, 4, 1, 20, 1, 0, 0 >>

\* the fields of the entry whose follow byte is at position p: lines 623-649
\* (the note is still unclamped)
DecodeEntry(d, p, legacy) ==
    LET follow  == d[p + 1]
        hasNote == BitAnd(follow, 32) # 0
        hasVol  == BitAnd(follow, 64) # 0
        hasEff  == BitAnd(follow, 128) # 0
        wide    == hasNote /\ ~legacy /\ d[p + 2] >= 128
        p1      == p + 1 + EntryNoteBytes(d, p, legacy)
        p2      == p1 + (IF hasVol THEN 1 ELSE 0)
    IN  [follow     |-> follow,
         channel    |-> follow % 32,
         hasNote    |-> hasNote,
         hasVol     |-> hasVol,
         hasEff     |-> hasEff,
         note       |-> IF ~hasNote THEN 0
                        ELSE IF legacy THEN d[p + 2] \div 2
                        ELSE IF wide THEN d[p + 2] % 128
                        ELSE d[p + 2],
         instrument |-> IF ~hasNote THEN 0
                        ELSE IF legacy THEN d[p + 3] + 256 * (d[p + 2] % 2)
                        ELSE IF wide THEN d[p + 3] + 256 * d[p + 4]
                        ELSE d[p + 3],
         volume     |-> IF hasVol THEN d[p1 + 1] ELSE 0,
         effect     |-> IF hasEff THEN d[p2 + 1] ELSE 0,
         effectop   |-> IF hasEff THEN d[p2 + 2] ELSE 0,
         next       |-> p + EntryLength(d, p, legacy)]

\* line 640
XmNote(hasNote, note) == IF hasNote /\ (note > 97 \/ note = 0) THEN 97 ELSE note

\* lines 625-647: xmflag before the effect is converted
XmFlagOf(e) ==
    128 + (IF e.hasNote THEN 3 ELSE 0) + (IF e.hasVol THEN 4 ELSE 0)
        + (IF e.hasEff THEN 24 ELSE 0)

\* the effects whose conversion uses memory[channel].s3m: lines 657-710
UsesS3MMemory(e) == e.hasEff /\ e.effect \in {6, 11, 15, 23, 24}

\* s3m memory recall of lines 658, 670, 682, 694, 709
RecallOp(op, s3m) == IF op = 0 /\ s3m # 0 THEN s3m ELSE op

\* the volume column of lines 698, 702, 713, 717
VolumeColumn(c, v) ==
    IF BitAnd(c.xmflag, 4) = 0
    THEN [c EXCEPT !.xmflag = BitOr(c.xmflag, 4), !.volume = v]
    ELSE c

\* lines 650-736: the effect of a cell c (xmflag, volume, effect, effectop)
\* converted, with s3m = memory[channel].s3m, the speed and the warnings;
\* log collects the warnings printed
XmConvert(c, s3m, spd, warn) ==
    LET effect   == c.effect
        xmeffect == EffectMapXM[effect + 1][1]
        mask     == EffectMapXM[effect + 1][2]
        op       == RecallOp(c.effectop, s3m)
        keep     == [cell |-> c, s3m |-> s3m, speed |-> spd, warnings |-> warn,
                     log |-> <<>>]
        dropped  == [c EXCEPT !.xmflag = ClearBits(c.xmflag, 24),
                              !.effect = 0, !.effectop = 0]
        with(e, o) == [keep EXCEPT !.cell = [c EXCEPT !.effect = e, !.effectop = o],
                                   !.s3m = op]
        column(v, e) == [keep EXCEPT
                            !.cell = [VolumeColumn(c, v) EXCEPT !.effect = e,
                                                               !.effectop = 0],
                            !.s3m = op]
    IN  IF xmeffect = 65535 THEN [keep EXCEPT !.cell = dropped]
        ELSE IF effect = 6 THEN
            IF HiNibble(op) = 240 THEN with(14, BitOr(176, LoNibble(op)))
            ELSE IF LoNibble(op) = 15 /\ op # 15 THEN with(14, BitOr(160, op \div 16))
            ELSE with(10, op)
        ELSE IF effect = 11 THEN
            IF HiNibble(op) = 240 THEN with(14, BitOr(32, LoNibble(op)))
            ELSE IF HiNibble(op) = 224 THEN with(33, BitOr(32, LoNibble(op)))
            ELSE with(2, op)
        ELSE IF effect = 15 THEN
            IF HiNibble(op) = 240 THEN with(14, BitOr(16, LoNibble(op)))
            ELSE IF HiNibble(op) = 224 THEN with(33, BitOr(16, LoNibble(op)))
            ELSE with(1, op)
        ELSE IF effect = 23 THEN
            IF HiNibble(op) = 240 THEN column(BitOr(128, LoNibble(op)), 4)
            ELSE IF LoNibble(op) = 15 THEN column(BitOr(144, op \div 16), 4)
            ELSE with(6, op)
        ELSE IF effect = 24 THEN
            IF HiNibble(op) = 240 THEN column(BitOr(128, LoNibble(op)), 3)
            ELSE IF LoNibble(op) = 15 THEN column(BitOr(144, op \div 16), 3)
            ELSE with(6, op)
        ELSE IF effect = 25 \/ effect = 26 \/ effect = 31
                \/ (effect = 1 /\ (c.effectop >= 32 \/ c.effectop = 0)) THEN
            LET warns == BitAnd(warn, 2) = 0 /\ ~(effect = 1 /\ c.effectop = 0)
            IN  [keep EXCEPT !.cell = dropped,
                             !.warnings = IF warns THEN BitOr(warn, 2) ELSE warn,
                             !.log = IF warns THEN <<"s3m-effect">> ELSE <<>>]
        ELSE
            LET warns == (effect = 35 \/ effect = 40) /\ BitAnd(warn, 1) = 0
                op2   == IF effect = 29 /\ HiNibble(c.effectop) = 0
                         THEN BitOr(c.effectop, 128) ELSE c.effectop
                xm    == BitOr(xmeffect, BitAnd(op2, mask))
            IN  [keep EXCEPT
                    !.cell = [c EXCEPT !.effect = xm \div 256,
                                       !.effectop = xm % 256],
                    !.speed = IF effect = 1 \/ effect = 3 THEN c.effectop ELSE spd,
                    !.warnings = IF warns THEN BitOr(warn, 1) ELSE warn,
                    !.log = IF warns THEN <<"mpt-effect">> ELSE <<>>]

\* the portamento value without the ticks of a row
PortaTargetPerRow(effect, op, porta, spd) ==
    IF effect = 2 THEN porta - op
    ELSE IF effect = 1 THEN porta + op
    ELSE 65535

\* lines 747-760: the portamento value the effect leads to
PortaTarget(effect, op, porta, spd) ==
    IF effect = 2 THEN porta - op * spd
    ELSE IF effect = 14 /\ HiNibble(op) = 32 THEN porta - LoNibble(op)
    ELSE IF effect = 33 /\ HiNibble(op) = 32 THEN porta - (LoNibble(op) \div 4)
    ELSE IF effect = 1 THEN porta + op * spd
    ELSE IF effect = 14 /\ HiNibble(op) = 16 THEN porta + LoNibble(op)
    ELSE IF effect = 33 /\ BitAnd(op, 15) = 16 THEN porta + (LoNibble(op) \div 4)
    ELSE 65535

\* lines 765-770: the operand of a portamento that would pass below 0
ShortenedOp(effect, op, porta, spd) ==
    IF effect = 2 THEN U8((op * spd - porta) \div spd)
    ELSE IF effect = 14 /\ HiNibble(op) = 32 THEN U8(LoNibble(op) - porta)
    ELSE IF effect = 33 /\ HiNibble(op) = 32
         THEN U8(((LoNibble(op) \div 4) - porta) * 4)
    ELSE op

\* lines 744-783: the portamento fix on the cell c of a channel whose memory
\* is m; yields the cell and the new memory[channel].porta
PortaFix(c, m, spd) ==
    LET porta == IF c.note # 0 /\ c.note < 97 THEN c.note * 16 ELSE m.porta
        d     == PortaTarget(c.effect, c.effectop, porta, spd)
        cell  == IF d > 0 THEN c
                 ELSE IF porta > 0
                 THEN [c EXCEPT !.effectop = ShortenedOp(c.effect, c.effectop,
                                                         porta, spd)]
                 ELSE [c EXCEPT !.note = 97,
                                !.xmflag = BitOr(ClearBits(c.xmflag, 24), 1),
                                !.effect = 0, !.effectop = 0]
    IN  [cell |-> cell,
         porta |-> IF porta > 0 /\ d # 65535 THEN d ELSE porta]

\* a pan effect: lines 786, 805, 806
IsPanEffect(effect, op) == effect = 8 \/ (effect = 14 /\ HiNibble(op) = 128)

\* lines 786-804: the remembered pan is put back into the cell
RestorePan(c, m, warn) ==
    IF m.pan = 128 \/ IsPanEffect(c.effect, c.effectop)
    THEN [cell |-> c, warnings |-> warn, log |-> <<>>]
    ELSE IF BitAnd(c.xmflag, 26) = 2
    THEN [cell |-> [c EXCEPT !.xmflag = BitOr(c.xmflag, 24), !.effect = 8,
                             !.effectop = m.pan],
          warnings |-> warn, log |-> <<>>]
    ELSE IF c.instrument # 0 /\ c.instrument = m.instrument
    THEN [cell |-> [c EXCEPT !.xmflag = ClearBits(c.xmflag, 2)],
          warnings |-> warn, log |-> <<>>]
    ELSE IF BitAnd(c.xmflag, 6) = 2
    THEN [cell |-> [c EXCEPT !.xmflag = BitOr(c.xmflag, 4),
                             !.volume = BitOr(192, m.pan \div 16)],
          warnings |-> warn, log |-> <<>>]
    ELSE [cell |-> c,
          warnings |-> BitOr(warn, 4),
          log |-> IF BitAnd(warn, 4) = 0 THEN <<"pan">> ELSE <<>>]

\* lines 785-808: the pan fix; yields the cell, the warnings and the new pan and
\* instrument of memory[channel]
PanFix(c, m, warn) ==
    LET r    == RestorePan(c, m, warn)
        c1   == r.cell
        c2   == IF c1.effect = 8 THEN [c1 EXCEPT !.effectop = U8(c1.effectop * 2)]
                ELSE c1
    IN  [cell       |-> c2,
         warnings   |-> r.warnings,
         log        |-> r.log,
         pan        |-> IF c2.effect = 8 THEN c2.effectop
                        ELSE IF c2.effect = 14 /\ HiNibble(c2.effectop) = 128
                        THEN U8(c2.effectop * 16)
                        ELSE m.pan,
         instrument |-> IF c2.instrument # 0 /\ c2.note < 97 THEN c2.instrument
                        ELSE m.instrument]

\* the cell of a row no entry was stored in (calloc, memset: lines 609, 620)
EmptyNote ==
    [xmflag |-> 0, note |-> 0, instrument |-> 0, volume |-> 0, effect |-> 0,
     effectop |-> 0]

\* lines 612-617
FreshMemory == [s3m |-> 0, porta |-> 0, pan |-> 128, instrument |-> 0]

\* lines 625-649: the cell as decoded
DecodedCell(e) ==
    [xmflag |-> XmFlagOf(e), note |-> XmNote(e.hasNote, e.note),
     instrument |-> e.instrument, volume |-> e.volume, effect |-> e.effect,
     effectop |-> e.effectop]

\* lines 646-737 for the entry e with s3m = memory[channel].s3m
ConvertedCell(e, s3m, spd, warn) ==
    IF e.hasEff THEN XmConvert(DecodedCell(e), s3m, spd, warn)
    ELSE [cell |-> DecodedCell(e), s3m |-> s3m, speed |-> spd, warnings |-> warn,
          log |-> <<>>]

\* FixedCell with both fixes applied whatever fixCompatibility is
FixedCellAlways(conv, m, fix, amigaLimits, instrumentBased) ==
    LET m1 == [m EXCEPT !.s3m = conv.s3m]
        pf == IF amigaLimits = 0 THEN PortaFix(conv.cell, m1, conv.speed)
              ELSE [cell |-> conv.cell, porta |-> m1.porta]
        m2 == [m1 EXCEPT !.porta = pf.porta]
        pn == IF instrumentBased = 0 THEN PanFix(pf.cell, m2, conv.warnings)
              ELSE [cell |-> pf.cell, warnings |-> conv.warnings, log |-> <<>>,
                    pan |-> m2.pan, instrument |-> m2.instrument]
    IN  [cell     |-> pn.cell,
         memory   |-> [m2 EXCEPT !.pan = pn.pan, !.instrument = pn.instrument],
         warnings |-> pn.warnings,
         log      |-> conv.log \o pn.log]

\* lines 740-809 on a converted cell conv of a channel with memory m
FixedCell(conv, m, fix, amigaLimits, instrumentBased) ==
    LET m1 == [m EXCEPT !.s3m = conv.s3m]
        pf == IF fix /\ amigaLimits = 0 THEN PortaFix(conv.cell, m1, conv.speed)
              ELSE [cell |-> conv.cell, porta |-> m1.porta]
        m2 == [m1 EXCEPT !.porta = pf.porta]
        pn == IF fix /\ instrumentBased = 0 THEN PanFix(pf.cell, m2, conv.warnings)
              ELSE [cell |-> pf.cell, warnings |-> conv.warnings, log |-> <<>>,
                    pan |-> m2.pan, instrument |-> m2.instrument]
    IN  [cell     |-> pn.cell,
         memory   |-> [m2 EXCEPT !.pan = pn.pan, !.instrument = pn.instrument],
         warnings |-> pn.warnings,
         log      |-> conv.log \o pn.log]

\* line 837: the size of instrumentList at which a new instrument is refused
TrimLimit == 254

\* no instrument is found in the list
ListIndexNone(list, v) == 0

\* lines 829-833: myInstrument for the value v, 0 if it is not in the list
ListIndex(list, v) ==
    IF \E k \in 1..Len(list) : list[k] = v
    THEN CHOOSE k \in 1..Len(list) :
            list[k] = v /\ \A l \in 1..(k - 1) : list[l] # v
    ELSE 0

\* the list refuses one instrument later
ListFullLate(list) == Len(list) >= TrimLimit + 1

\* line 837
ListFull(list) == Len(list) >= TrimLimit

\* lines 820-859 for one cell c, written at position pos
FlushCell(c, pos, list, trim, fix) ==
    LET has(b)  == BitAnd(c.xmflag, b) # 0
        known   == ListIndex(list, c.instrument - 1)
        remaps  == has(2) /\ c.instrument # 0 /\ trim
        fails   == remaps /\ known = 0 /\ ListFull(list)
        list2   == IF remaps /\ known = 0 /\ ~fails
                   THEN Append(list, c.instrument - 1) ELSE list
        head    == <<c.xmflag>> \o (IF has(1) THEN <<c.note>> ELSE <<>>)
        inst    == IF ~has(2) THEN <<>>
                   ELSE IF c.instrument = 0 THEN <<0>>
                   ELSE IF ~trim THEN <<c.instrument % 128>>
                   ELSE <<IF known # 0 THEN known ELSE Len(list2)>>
        vol     == IF has(4) THEN <<c.volume>> ELSE <<>>
        before  == head \o inst \o vol
        records == IF has(8) /\ fix /\ c.effect = 9 /\ has(16)
                   THEN <<[instrument |-> U16(c.instrument - 1),
                           effectop |-> c.effectop, pos |-> pos + Len(before)]>>
                   ELSE <<>>
        tail    == (IF has(8) THEN <<c.effect>> ELSE <<>>)
                   \o (IF has(16) THEN <<c.effectop>> ELSE <<>>)
    IN  IF c.xmflag = 0
        THEN [bytes |-> <<128>>, list |-> list, records |-> <<>>, failed |-> FALSE]
        ELSE IF fails
        THEN [bytes |-> head, list |-> list, records |-> <<>>, failed |-> TRUE]
        ELSE [bytes |-> before \o tail, list |-> list2, records |-> records,
              failed |-> FALSE]

\* lines 819-860: the cells lo..hi of a row, in order; acc is what the cells
\* before lo gave
RECURSIVE FlushRow(_, _, _, _, _, _, _)
FlushRow(cells, lo, hi, acc, base, trim, fix) ==
    IF lo > hi \/ acc.failed THEN acc
    ELSE IF lo = hi
    THEN LET f == FlushCell(cells[lo], base + Len(acc.bytes), acc.list, trim, fix)
         IN  [bytes   |-> acc.bytes \o f.bytes,
              list    |-> f.list,
              records |-> acc.records \o f.records,
              failed  |-> f.failed]
    ELSE LET mid == (lo + hi) \div 2
             left == FlushRow(cells, lo, mid, acc, base, trim, fix)
         IN  Then(left, FlushRow(cells, mid + 1, hi, left, base, trim, fix))

\* lines 562-563 and 1079-1080
MaxOrder(m, n) ==
    LET used == {OrderAt(m.order, k) : k \in 0..(n - 1)}
    IN  IF n = 0 THEN 0 ELSE CHOOSE v \in used : \A w \in used : w <= v

PatternCountOf(m) == U8(MaxOrder(m, m.numOrders) + 1)

(***************************************************************************)
(* unkrawerter_writeModuleToXM as a state machine.                         *)
(***************************************************************************)
\* the process died of heap corruption or of a wild pointer
Crashed == -2

\* the values a read outside an allocation may yield
GarbageBytes == {0, 255}

\* the comparison of line 632 with the key of the cutoff included
LegacyInclusive == version >= 0 /\ version <= VersionCutoff

\* lines 632, 1103 and 1257: version < 0x20040707
Legacy == BelowCutoff(version)

\* the function returns code
Return(code, msgs) ==
    /\ result' = code
    /\ stderrLog' = stderrLog \o msgs
    /\ pc' = "done"

\* lines 572-578
XmTitle ==
    IF name = <<>> THEN XmHeaderText
    ELSE SubSeq(XmHeaderText, 1, 17)
         \o SubSeq(name, 1, Min(Len(name), 20))
         \o Filled(20 - Min(Len(name), 20), 32)
         \o SubSeq(XmHeaderText, 38, 64)

\* lines 579-596
XmSongHeader(cnt) ==
    <<mod.numOrders, 0, mod.songRestart, 0, mod.channels, 0>>
    \o LE16(cnt)
    \o (IF trimInstruments THEN <<0, 0>>
        ELSE LE16(U16(IF mod.flagInstrumentBased # 0 THEN Len(instruments)
                      ELSE Len(samples))))
    \o <<IF mod.flagLinearSlides # 0 THEN 1 ELSE 0, 0, mod.initSpeed, 0,
         mod.initBPM, 0>>
    \o [i \in 1..256 |-> OrderAt(mod.order, i - 1)]

\* lines 549-598
XmBegin ==
    /\ pc = "xm"
    /\ IF Len(instruments) > 255 /\ ~trimInstruments
       THEN Return(10, <<"no-trim">>)
            /\ UNCHANGED <<out, outPos, patternCount, pidx, instrumentSizePos>>
       ELSE IF ~canOpen
       THEN Return(2, <<"open">>)
            /\ UNCHANGED <<out, outPos, patternCount, pidx, instrumentSizePos>>
       ELSE IF mod.flagInstrumentBased # 0 /\ instruments = <<>>
       THEN Return(3, <<"offsets">>)
            /\ patternCount' = PatternCountOf(mod)
            /\ UNCHANGED <<out, outPos, pidx, instrumentSizePos>>
       ELSE /\ patternCount' = PatternCountOf(mod)
            /\ out' = Put(EmptyFile, XmTitle \o XmSongHeader(PatternCountOf(mod)))
            /\ outPos' = out'.len
            /\ instrumentSizePos' = Len(XmTitle) + 8
            /\ pidx' = 0
            /\ pc' = "xm_pattern"
            /\ UNCHANGED <<result, stderrLog>>
    /\ UNCHANGED <<mainVars, version, scanVars, modVars, jobVars, row, dataPos, warnings,
                   thisrow, memory, speed, sizePos, instrumentList,
                   sampleOffsetList, iidx, patternSizes, memAccess, s3mVars,
                   deltaVars>>

\* lines 600-618: the header of pattern pidx and the per-pattern state
XmPatternHeader ==
    /\ pc = "xm_pattern"
    /\ pidx < patternCount
    /\ IF pidx >= Len(mod.patterns)
       THEN \* mod->patterns[i] was never set: a wild pointer
            /\ Return(Crashed, <<>>)
            /\ UNCHANGED <<out, outPos, sizePos, thisrow, memory, warnings, speed,
                           row, dataPos>>
       ELSE /\ out' = WriteAt(out, outPos,
                         <<9, 0, 0, 0, 0>> \o LE16(mod.patterns[pidx + 1].rows)
                         \o <<0, 0>>)
            /\ outPos' = outPos + 9
            /\ sizePos' = outPos + 7
            /\ thisrow' = [j \in 1..mod.channels |-> EmptyNote]
            /\ memory' = [j \in 1..mod.channels |-> FreshMemory]
            /\ warnings' = 0
            /\ speed' = mod.initSpeed
            /\ row' = 0
            /\ dataPos' = 0
            /\ pc' = "xm_row"
            /\ UNCHANGED <<result, stderrLog>>
    /\ UNCHANGED <<mainVars, version, scanVars, modVars, jobVars, patternCount, pidx,
                   instrumentSizePos, instrumentList, sampleOffsetList, iidx,
                   patternSizes, memAccess, s3mVars, deltaVars>>

\* lines 623-817: one entry of the current row
XmEntry ==
    /\ pc = "xm_row"
    /\ row < mod.patterns[pidx + 1].rows
    /\ mod.patterns[pidx + 1].data[dataPos + 1] # 0
    /\ LET e  == DecodeEntry(mod.patterns[pidx + 1].data, dataPos, Legacy)
           ch == e.channel
       IN  /\ dataPos' = e.next
           /\ memAccess' = memAccess \cup
                  (IF UsesS3MMemory(e) \/ ch < mod.channels THEN {ch} ELSE {})
           /\ IF ch < mod.channels
              THEN LET conv == ConvertedCell(e, memory[ch + 1].s3m, speed, warnings)
                       fx   == FixedCell(conv, memory[ch + 1], fixCompatibility,
                                         mod.flagAmigaLimits,
                                         mod.flagInstrumentBased)
                   IN  /\ thisrow' = [thisrow EXCEPT ![ch + 1] = fx.cell]
                       /\ memory' = [memory EXCEPT ![ch + 1] = fx.memory]
                       /\ speed' = conv.speed
                       /\ warnings' = fx.warnings
                       /\ stderrLog' = stderrLog \o fx.log
                       /\ UNCHANGED <<pc, result>>
              ELSE \* line 739: the entry is not stored; memory[channel].s3m has
                   \* been read and written outside the array before
                   \E garbage \in GarbageBytes, survives \in BOOLEAN :
                      LET conv == ConvertedCell(e, garbage, speed, warnings)
                      IN  IF UsesS3MMemory(e) /\ ~survives
                          THEN /\ Return(Crashed, <<>>)
                               /\ UNCHANGED <<thisrow, memory, speed, warnings>>
                          ELSE /\ speed' = conv.speed
                               /\ warnings' = conv.warnings
                               /\ stderrLog' = stderrLog \o conv.log
                               /\ UNCHANGED <<pc, result, thisrow, memory>>
    /\ UNCHANGED <<mainVars, version, scanVars, modVars, jobVars, out, outPos, patternCount,
                   pidx, row, sizePos, instrumentSizePos, instrumentList,
                   sampleOffsetList, iidx, patternSizes, s3mVars, deltaVars>>

\* lines 624 and 819-861: the row ends and is written
XmRowEnd ==
    /\ pc = "xm_row"
    /\ row < mod.patterns[pidx + 1].rows
    /\ mod.patterns[pidx + 1].data[dataPos + 1] = 0
    /\ LET f == FlushRow(thisrow, 1, Len(thisrow),
                         [bytes |-> <<>>, list |-> instrumentList,
                          records |-> <<>>, failed |-> FALSE],
                         outPos, trimInstruments, fixCompatibility)
       IN  /\ out' = WriteAt(out, outPos, f.bytes)
           /\ outPos' = outPos + Len(f.bytes)
           /\ instrumentList' = f.list
           /\ sampleOffsetList' = sampleOffsetList \o f.records
           /\ IF f.failed
              THEN /\ Return(3, <<"too-many-instruments">>)
                   /\ UNCHANGED <<row, dataPos, thisrow>>
              ELSE /\ row' = row + 1
                   /\ dataPos' = dataPos + 1
                   /\ thisrow' = [j \in 1..mod.channels |-> EmptyNote]
                   /\ UNCHANGED <<pc, result, stderrLog>>
    /\ UNCHANGED <<mainVars, version, scanVars, modVars, jobVars, patternCount, pidx,
                   warnings, memory, speed, sizePos, instrumentSizePos, iidx,
                   patternSizes, memAccess, s3mVars, deltaVars>>

\* line 867: unsigned short size = endPos - sizePos - 2
BodySize(endPos, start) == U16(endPos - start - 2)

\* lines 862-870: the size of the packed data is written into the header
XmPatternEnd ==
    /\ pc = "xm_row"
    /\ ~(row < mod.patterns[pidx + 1].rows)
    /\ LET r == BackPatch(Positioned(out, outPos), sizePos,
                          LE16(BodySize(outPos, sizePos)))
       IN  /\ out' = r.file
           /\ outPos' = r.pos
    /\ patternSizes' = Append(patternSizes, [sizePos |-> sizePos, endPos |-> outPos])
    /\ pidx' = pidx + 1
    /\ pc' = "xm_pattern"
    /\ UNCHANGED <<mainVars, version, scanVars, modVars, jobVars, result, stderrLog,
                   patternCount, row, dataPos, warnings, thisrow, memory, speed,
                   sizePos, instrumentSizePos, instrumentList, sampleOffsetList,
                   iidx, memAccess, s3mVars, deltaVars>>

(***************************************************************************)
(* The instruments and samples of the XM file: lines 871-1059.             *)
(***************************************************************************)
\* printf("%d") of a non-negative number
RECURSIVE Digits(_)
Digits(n) == IF n < 10 THEN <<48 + n>> ELSE Append(Digits(n \div 10), 48 + (n % 10))

\* snprintf(name, size, text "%d", n) into a buffer filled with fill
NameField(text, n, size, fill) ==
    LET str == text \o Digits(n) \o <<0>>
    IN  [k \in 1..size |-> IF k <= Len(str) THEN str[k] ELSE fill]

InstrumentText == <<73, 110, 115, 116, 114, 117, 109, 101, 110, 116>>

SampleText == <<83, 97, 109, 112, 108, 101>>

\* the delta with the previous value left out
DeltaByteAbsolute(b, prev) == U8(SignedChar(b) + 128)

\* lines 988-992 and 1045-1049: the delta written for the byte b after old
DeltaByte(b, prev) == U8((SignedChar(b) + 128) - prev)

\* lines 991 and 1048
OldAfter(b) == U8(SignedChar(b) + 128)

\* the whole loop of lines 988-992 from the byte k on: old is what the byte
\* before left
DeltaEncode(d, k, prev) ==
    [j \in 1..(Len(d) - k + 1) |->
        DeltaByte(d[k + j - 1], IF j = 1 THEN prev ELSE OldAfter(d[k + j - 2]))]

\* lines 952-969 and 1014-1031: the 40-byte sample header
XmSampleHeader(s, n) ==
    LE32(s.size)
    \o (IF s.loopLength = 0 THEN <<0, 0, 0, 0>> ELSE LE32(s.size - s.loopLength))
    \o LE32(s.loopLength)
    \o <<s.volDefault, s.fineTune, IF s.loop # 0 THEN 1 ELSE 0,
         U8(SignedChar(s.panDefault) + 128), s.relativeNote, 0>>
    \o NameField(SampleText, n, 22, 32)

\* lines 975 and 1036: whether an offset effect is beyond the sample
OffsetTooBig(op, s, instrumentBased) ==
    IF instrumentBased THEN op >= s.size \div 256 ELSE op * 256 > s.size

\* lines 974-979 and 1035-1040: effect and operand of the offset effects
\* recorded for instrument i are zeroed where they are too big
RECURSIVE ZeroOffsets(_, _, _, _, _, _)
ZeroOffsets(fp, recs, k, i, s, instrumentBased) ==
    IF k > Len(recs) THEN fp
    ELSE ZeroOffsets(
            IF recs[k].instrument = i
               /\ OffsetTooBig(recs[k].effectop, s, instrumentBased)
            THEN Write(Seek(fp, recs[k].pos), <<0, 0>>) ELSE fp,
            recs, k + 1, i, s, instrumentBased)

\* lines 972-981 and 1033-1042: retpos = ftell(out), the loop, fseek back to
\* retpos
FixOffsets(fp, recs, k, i, s, instrumentBased) ==
    Seek(ZeroOffsets(fp, recs, k, i, s, instrumentBased), fp.pos)

\* lines 1000-1011
XmPlainInstrumentHeader(i) ==
    <<252, 0, 0, 0>> \o NameField(InstrumentText, i, 22, 0) \o <<0, 1, 0, 40>>
    \o Zeros(3 + 96 + 96 + 16) \o Zeros(11)

\* lines 998-1051 for the instrument i
XmPlainInstrument(fp, i) ==
    LET s    == samples[i + 1]
        head == Write(fp, XmPlainInstrumentHeader(i) \o XmSampleHeader(s, i))
        fxd  == IF fixCompatibility
                THEN FixOffsets(head, sampleOffsetList, 1, i, s, FALSE) ELSE head
    IN  Write(fxd, DeltaEncode(s.data, 1, 0))

\* std::unique_copy of line 888: runs of equal values collapse
RECURSIVE UniqueCopy(_, _, _)
UniqueCopy(a, lo, hi) ==
    IF lo > hi THEN <<>>
    ELSE IF lo = hi THEN (IF lo > 1 /\ a[lo] = a[lo - 1] THEN <<>> ELSE <<a[lo]>>)
    ELSE LET mid == (lo + hi) \div 2
         IN  UniqueCopy(a, lo, mid) \o UniqueCopy(a, mid + 1, hi)

\* lines 902-905: sample_conversion[v]
SampleConversion(us, v) ==
    (CHOOSE j \in 1..Len(us) : us[j] = v /\ \A l \in (j + 1)..Len(us) : us[l] # v) - 1

\* lines 913-924
RECURSIVE EnvelopeNodes(_, _)
EnvelopeNodes(env, j) ==
    IF j > 12 THEN <<>>
    ELSE LE16(env.nodes[j].coord % 512) \o LE16(env.nodes[j].coord \div 512)
         \o EnvelopeNodes(env, j + 1)

\* lines 891-941
XmInstrumentHeader(instr, i, us) ==
    <<IF Len(us) = 0 THEN 29 ELSE 252, 0, 0, 0>>
    \o NameField(InstrumentText, i, 22, 0) \o <<0>> \o LE16(Len(us))
    \o <<40, 0, 0, 0>>
    \o [k \in 1..96 |-> SampleConversion(us, instr.samples[k])]
    \o EnvelopeNodes(instr.envVol, 1) \o EnvelopeNodes(instr.envPan, 1)
    \o <<U8(instr.envVol.max + 1), U8(instr.envPan.max + 1), instr.envVol.sus,
         instr.envVol.loopStart, instr.envVol.max, instr.envPan.sus,
         instr.envPan.loopStart, instr.envPan.max, instr.envVol.flags,
         instr.envPan.flags, instr.vibType, instr.vibSweep, instr.vibDepth,
         instr.vibRate>>
    \o LE16(instr.volFade) \o Zeros(11)

\* lines 947-982: the headers of the samples us[j].. of the instrument i
RECURSIVE XmSampleHeaders(_, _, _, _)
XmSampleHeaders(fp, us, j, i) ==
    IF j > Len(us) THEN fp
    ELSE IF us[j] > Len(samples) THEN XmSampleHeaders(fp, us, j + 1, i)
    ELSE LET s    == samples[us[j] + 1]
             head == Write(fp, XmSampleHeader(s, us[j]))
         IN  XmSampleHeaders(
                IF fixCompatibility
                THEN FixOffsets(head, sampleOffsetList, 1, i, s, TRUE) ELSE head,
                us, j + 1, i)

\* lines 984-994
RECURSIVE XmSampleBodies(_, _)
XmSampleBodies(us, j) ==
    IF j > Len(us) THEN <<>>
    ELSE IF us[j] > Len(samples) THEN XmSampleBodies(us, j + 1)
    ELSE DeltaEncode(samples[us[j] + 1].data, 1, 0) \o XmSampleBodies(us, j + 1)

\* lines 882-995 for the instrument i
XmFullInstrument(fp, i) ==
    LET instr == instruments[i + 1]
        us    == UniqueCopy(instr.samples, 1, Len(instr.samples))
    IN  Write(XmSampleHeaders(Write(fp, XmInstrumentHeader(instr, i, us)), us, 1, i),
              XmSampleBodies(us, 1))

\* lines 871-879: the number of instruments is written, or the list is filled
XmInstrumentCount ==
    /\ pc = "xm_pattern"
    /\ ~(pidx < patternCount)
    /\ IF trimInstruments
       THEN /\ LET r == BackPatch(Positioned(out, outPos), instrumentSizePos,
                                  LE16(Len(instrumentList)))
               IN  /\ out' = r.file
                   /\ outPos' = r.pos
            /\ UNCHANGED instrumentList
       ELSE /\ instrumentList' =
                [k \in 1..(IF mod.flagInstrumentBased # 0 THEN Len(instruments)
                           ELSE Len(samples)) |-> k - 1]
            /\ UNCHANGED <<out, outPos>>
    /\ iidx' = 0
    /\ pc' = "xm_instrument"
    /\ UNCHANGED <<mainVars, version, scanVars, modVars, jobVars, result, stderrLog,
                   loopVars, thisrow, memory, speed, sizePos, instrumentSizePos,
                   sampleOffsetList, patternSizes, memAccess, s3mVars, deltaVars>>

\* the loop of line 882 or of line 998 for instrumentList[lo..hi], in order
RECURSIVE XmInstrumentsFrom(_, _, _)
XmInstrumentsFrom(fp, lo, hi) ==
    IF lo > hi THEN fp
    ELSE IF lo = hi
    THEN (IF mod.flagInstrumentBased # 0
          THEN XmFullInstrument(fp, instrumentList[lo])
          ELSE XmPlainInstrument(fp, instrumentList[lo]))
    ELSE LET mid == (lo + hi) \div 2
             left == XmInstrumentsFrom(fp, lo, mid)
         IN  Then(left, XmInstrumentsFrom(left, mid + 1, hi))

\* lines 880-1052: every instrument of instrumentList is written
XmInstruments ==
    /\ pc = "xm_instrument"
    /\ iidx < Len(instrumentList)
    /\ LET r == XmInstrumentsFrom(Positioned(out, outPos), 1, Len(instrumentList))
       IN  /\ out' = r.file
           /\ outPos' = r.pos
    /\ iidx' = Len(instrumentList)
    /\ UNCHANGED <<pc, mainVars, version, scanVars, modVars, jobVars, result, stderrLog,
                   loopVars, thisrow, memory, speed, sizePos, instrumentSizePos,
                   instrumentList, sampleOffsetList, patternSizes, memAccess,
                   s3mVars, deltaVars>>

\* lines 1053-1058
XmFinish ==
    /\ pc = "xm_instrument"
    /\ ~(iidx < Len(instrumentList))
    /\ Return(0, <<>>)
    /\ UNCHANGED <<mainVars, version, scanVars, modVars, jobVars, out, outPos, loopVars,
                   xmVars, s3mVars, deltaVars>>

NextXM ==
    \/ XmBegin
    \/ XmPatternHeader
    \/ XmEntry
    \/ XmRowEnd
    \/ XmPatternEnd
    \/ XmInstrumentCount
    \/ XmInstruments
    \/ XmFinish

(***************************************************************************)
(* The modules the writers are run on.                                     *)
(***************************************************************************)
\* the bytes of an entry of the pattern format of lines 623-649: e gives the
\* channel, the fields present (note with instrument, volume, effect with
\* operand) and their values
EncodeEntry(e, legacy) ==
    <<e.channel + (IF e.hasNote THEN 32 ELSE 0) + (IF e.hasVol THEN 64 ELSE 0)
                + (IF e.hasEff THEN 128 ELSE 0)>>
    \o (IF ~e.hasNote THEN <<>>
        ELSE IF legacy
        THEN <<e.note * 2 + e.instrument \div 256, e.instrument % 256>>
        ELSE IF e.instrument > 255
        THEN <<e.note + 128, e.instrument % 256, e.instrument \div 256>>
        ELSE <<e.note, e.instrument>>)
    \o (IF e.hasVol THEN <<e.volume>> ELSE <<>>)
    \o (IF e.hasEff THEN <<e.effect, e.effectop>> ELSE <<>>)

NoteEntry(ch, note, inst) ==
    [channel |-> ch, hasNote |-> TRUE, note |-> note, instrument |-> inst,
     hasVol |-> FALSE, volume |-> 0, hasEff |-> FALSE, effect |-> 0, effectop |-> 0]

EffectEntry(ch, eff, op) ==
    [channel |-> ch, hasNote |-> FALSE, note |-> 0, instrument |-> 0,
     hasVol |-> FALSE, volume |-> 0, hasEff |-> TRUE, effect |-> eff, effectop |-> op]

FullEntry(ch, note, inst, vol, eff, op) ==
    [channel |-> ch, hasNote |-> TRUE, note |-> note, instrument |-> inst,
     hasVol |-> TRUE, volume |-> vol, hasEff |-> TRUE, effect |-> eff, effectop |-> op]

\* the row terminator
EndRow == [channel |-> 0, hasNote |-> FALSE, note |-> 0, instrument |-> 0,
           hasVol |-> FALSE, volume |-> 0, hasEff |-> FALSE, effect |-> 0,
           effectop |-> 0]

\* the bytes of the items lo..hi of a pattern (entries and row terminators)
RECURSIVE EncodeItems(_, _, _, _)
EncodeItems(items, lo, hi, legacy) ==
    IF lo > hi THEN <<>>
    ELSE IF lo = hi
    THEN (IF items[lo] = EndRow THEN <<0>> ELSE EncodeEntry(items[lo], legacy))
    ELSE LET mid == (lo + hi) \div 2
         IN  EncodeItems(items, lo, mid, legacy)
             \o EncodeItems(items, mid + 1, hi, legacy)

\* the number of row terminators among the items
RowsOf(items) == Cardinality({k \in 1..Len(items) : items[k] = EndRow})

\* the Pattern readPatternFile returns for the items followed by a last row
\* terminator
PatternOf(items, legacy) ==
    LET n == RowsOf(items) + 1
    IN  ReadPatternFile((IF legacy THEN <<n>> ELSE LE16(n))
                        \o EncodeItems(items, 1, Len(items), legacy) \o <<0>>, legacy)

\* the Sample readSampleFile returns for the sample bytes d
SampleOf(d, loopLength) ==
    [loopLength |-> loopLength, size |-> Len(d), c2Freq |-> 8363, fineTune |-> 0,
     relativeNote |-> 0, volDefault |-> 64, panDefault |-> 0,
     loop |-> IF loopLength > 0 THEN 1 ELSE 0, hq |-> 0, data |-> d]

EnvelopeOf(coord) ==
    [nodes |-> [j \in 1..12 |-> [coord |-> coord, inc |-> 0]], max |-> 1, sus |-> 0,
     loopStart |-> 0, flags |-> 0]

\* an Instrument whose sample map has first up to key split and second from there
InstrumentOf(first, second, split) ==
    [samples |-> [k \in 1..96 |-> IF k <= split THEN first ELSE second],
     envVol |-> EnvelopeOf(16448), envPan |-> EnvelopeOf(0), volFade |-> 128,
     vibType |-> 0, vibSweep |-> 0, vibDepth |-> 0, vibRate |-> 0]

\* the Module readModuleFile returns
ModuleOf(ch, ord, instrumentBased, amigaLimits, speedInit, pats) ==
    [channels |-> ch, numOrders |-> Len(ord), songRestart |-> 0, order |-> ord,
     channelPan |-> [k \in 1..32 |-> IF k = 1 THEN 0 ELSE 64], volGlobal |-> 64,
     initSpeed |-> speedInit, initBPM |-> 125,
     flagInstrumentBased |-> instrumentBased, flagLinearSlides |-> 1,
     flagVolSlides |-> 0, flagVolOpt |-> 0, flagAmigaLimits |-> amigaLimits,
     patterns |-> pats]

\* the number of items (entries and inner row ends) of a small pattern
MaxItems == 2

SmallEntries ==
    { NoteEntry(0, 49, 1),
      NoteEntry(1, 1, 2),
      EffectEntry(1, 6, 5),
      EffectEntry(0, 11, 0),
      EffectEntry(0, 34, 32),
      FullEntry(0, 97, 2, 32, 27, 1),
      EffectEntry(0, 1, 32),
      EffectEntry(1, 15, 241) }

SmallItems ==
    UNION {SeqsOfLen(SmallEntries \cup {EndRow}, n) : n \in 0..MaxItems}

SmallSamples == <<SampleOf(<<1, 255, 128>>, 0), SampleOf(<<127, 0>>, 1)>>

SmallInstruments == <<InstrumentOf(0, 0, 96), InstrumentOf(0, 1, 48)>>

SmallModules(legacy) ==
    {ModuleOf(ch, <<0>>, ib, amiga, 6, <<PatternOf(items, legacy)>>) :
        ch \in {1, 2}, ib \in {0, 1}, amiga \in {0, 1}, items \in SmallItems}

\* a module of two patterns, played in the order 1, 0
TwoPatternModule(legacy) ==
    ModuleOf(2, <<1, 0>>, 0, 0, 6,
             <<PatternOf(<<NoteEntry(0, 49, 1), EndRow, EffectEntry(0, 11, 255)>>,
                         legacy),
               PatternOf(<<FullEntry(1, 13, 2, 16, 27, 1)>>, legacy)>>)

\* the entries of the rows of the longest pattern: every row is empty but the
\* first, whose entry is the note e
LongChannels == 255

LongRows == (65536 \div LongChannels) + 1

LongPattern(legacy) ==
    LET first == EncodeEntry(NoteEntry(0, 49, 1), legacy)
        d     == first \o Zeros(LongRows)
    IN  [rows |-> LongRows, s3mlength |-> U16(3 + LongRows), length |-> U16(Len(d)),
         data |-> d, hang |-> FALSE]

LongModule(legacy) == ModuleOf(LongChannels, <<0>>, 0, 0, 6, <<LongPattern(legacy)>>)

InitXMWith(modules(_)) ==
    /\ pc = "xm"
    /\ version \in Versions
    /\ IdleScan
    /\ IdleMain
    /\ IdleMod
    /\ mod \in modules(version < VersionCutoff)
    /\ samples = SmallSamples
    /\ instruments = SmallInstruments
    /\ trimInstruments \in BOOLEAN
    /\ fixCompatibility \in BOOLEAN
    /\ name = <<>>
    /\ canOpen = TRUE
    /\ IdleFile
    /\ IdleLoops
    /\ IdleXM
    /\ IdleS3M
    /\ IdleDelta

\* the environment varies: the file cannot be opened, a title is given, there
\* are no instruments
InitXMEnvironment ==
    /\ pc = "xm"
    /\ version = DefaultVersion
    /\ IdleScan
    /\ IdleMain
    /\ IdleMod
    /\ mod \in {TwoPatternModule(FALSE),
                [TwoPatternModule(FALSE) EXCEPT !.flagInstrumentBased = 1]}
    /\ samples = SmallSamples
    /\ instruments \in {SmallInstruments, <<>>}
    /\ trimInstruments \in BOOLEAN
    /\ fixCompatibility = TRUE
    /\ name \in {<<>>, <<65, 66>>, [k \in 1..21 |-> 64 + k]}
    /\ canOpen \in BOOLEAN
    /\ IdleFile
    /\ IdleLoops
    /\ IdleXM
    /\ IdleS3M
    /\ IdleDelta

TwoPatternModules(legacy) == {TwoPatternModule(legacy)}

LongModules(legacy) == {LongModule(legacy)}

InitXM == InitXMWith(SmallModules) \/ InitXMWith(TwoPatternModules) \/ InitXMEnvironment

SpecXM == InitXM /\ [][NextXM]_vars

InitXMLong == InitXMWith(LongModules)

SpecXMLong == InitXMLong /\ [][NextXM]_vars

(***************************************************************************)
(* Claims about the patterns of the XM file.                               *)
(***************************************************************************)
\* C5: channel bounds: an entry whose channel is not below module.channels
\* is dropped, and no per-channel scratch or memory slot is read or written
\* with an index >= module.channels.
\* Violated: for the effects 6, 11, 15, 23 and 24 memory[channel].s3m is read
\* and written at lines 658-710, before the check of line 739.
C5_ChannelBound == \A ch \in memAccess : ch < mod.channels

\* C6: pattern body size back-patch: in the finished file the 16-bit
\* bodySize field of every pattern holds endOffset - sizeFieldOffset - 2, the
\* number of packed body bytes.
\* Violated: the field is an unsigned short, a body of 65536 bytes or more is
\* recorded modulo 65536.
C6_BodySizeBackPatch ==
    (pc = "done" /\ result = 0) =>
        \A k \in 1..Len(patternSizes) :
            U16At(out, patternSizes[k].sizePos)
                = patternSizes[k].endPos - patternSizes[k].sizePos - 2

(***************************************************************************)
(* unkrawerter_writeModuleToS3M: the pieces of the file.                   *)
(***************************************************************************)
\* "Krawall conversion" and ten NUL bytes: line 1128
S3mDefaultTitle ==
    <<75, 114, 97, 119, 97, 108, 108, 32, 99, 111, 110, 118, 101, 114, 115, 105,
      111, 110>> \o Zeros(10)

\* lines 1128-1132
S3mTitle ==
    IF name = <<>> THEN S3mDefaultTitle
    ELSE SubSeq(name, 1, Min(Len(name), 28)) \o Zeros(28 - Min(Len(name), 28))

\* trimInstruments ? instrumentMap.size() : sampleOffsets.size()
S3mInstrumentCount(map) == IF trimInstruments THEN Len(map) ELSE Len(samples)

\* lines 1158-1160
ChannelSettings(ch) ==
    [i \in 1..(ch \div 2) |-> i - 1]
    \o [i \in 1..((ch \div 2) + (ch % 2)) |-> BitOr(i - 1, 8)]
    \o Filled(32 - ch, 255)

\* lines 1128-1162: the 0x60 bytes of the header and the orders
S3mSongHeader(cnt) ==
    S3mTitle
    \o <<26, 16, 0, 0, mod.numOrders, 0, U8(cnt), 0, patternCount, 0,
         (IF mod.flagAmigaLimits # 0 THEN 16 ELSE 0)
            + (IF mod.flagVolOpt # 0 THEN 8 ELSE 0)
            + (IF mod.flagVolSlides # 0 THEN 64 ELSE 0),
         0, 19, 32, 2, 0>>
    \o <<83, 67, 82, 77>>
    \o <<mod.volGlobal, mod.initSpeed, mod.initBPM, 64, 0, 252>>
    \o Zeros(10)
    \o ChannelSettings(mod.channels)
    \o [i \in 1..mod.numOrders |-> OrderAt(mod.order, i - 1)]

\* lines 1168, 1184 and 1211: what is added to paddingBytes for the offset v
PadOf(v) == IF v % 16 # 0 THEN 16 - (v % 16) ELSE 0

\* lines 1168-1169 and 1184-1185: the 16-bit tmp becomes a parapointer
ParaPointer(tmp) ==
    IF tmp % 16 # 0 THEN U16((tmp - (tmp % 16)) + 16) \div 16 ELSE tmp \div 16

\* lines 1166-1171 for the instruments lo..hi (counted from 0), in order
RECURSIVE InstrumentPointers(_, _, _, _)
InstrumentPointers(lo, hi, cnt, acc) ==
    IF lo > hi THEN acc
    ELSE IF lo = hi
    THEN LET tmp == U16(96 + mod.numOrders + cnt * 2 + patternCount * 2 + 32
                        + lo * 80 + acc.pad)
         IN  [bytes |-> acc.bytes \o LE16(ParaPointer(tmp)),
              pad   |-> acc.pad + PadOf(tmp)]
    ELSE LET mid == (lo + hi) \div 2
             left == InstrumentPointers(lo, mid, cnt, acc)
         IN  Then(left, InstrumentPointers(mid + 1, hi, cnt, left))

\* lines 1173-1188 from the pattern i on
RECURSIVE PatternPointers(_, _, _)
PatternPointers(i, cnt, acc) ==
    IF i >= patternCount \/ acc.failed \/ acc.wild THEN acc
    ELSE IF i >= Len(mod.patterns) THEN [acc EXCEPT !.wild = TRUE]
    ELSE IF mod.patterns[i + 1].rows # 64 THEN [acc EXCEPT !.failed = TRUE]
    ELSE LET tmp == U16(96 + mod.numOrders + cnt * 82 + patternCount * 2 + 32
                        + acc.offset + acc.pad)
         IN  PatternPointers(i + 1, cnt,
                [bytes  |-> acc.bytes \o LE16(ParaPointer(tmp)),
                 pad    |-> acc.pad + PadOf(tmp),
                 offset |-> acc.offset + mod.patterns[i + 1].s3mlength + 2,
                 failed |-> FALSE,
                 wild   |-> FALSE])

\* lines 1190-1194
PanPositions ==
    [i \in 1..mod.channels |->
        IF mod.channelPan[i] = 0 THEN 39 ELSE BitOr(mod.channelPan[i] \div 16, 32)]
    \o Filled(32 - mod.channels, 8)

\* the bytes added by no padding at all
PadLengthNone(pos) == 0

\* while (ftell(out) & 0xF) fputc(0, out): the number of bytes written at pos
PadLength(pos) == (16 - (pos % 16)) % 16

\* lines 1209, 1243 and 1304
Pad16(f) == Put(f, Zeros(PadLength(f.len)))

\* lines 1200-1207: the sample written as instrument i (counted from 0)
S3mSampleIndex(i) == IF trimInstruments THEN U16(instrumentMap[i + 1] - 1) ELSE i

\* lines 1210-1216: the parapointer of the sample data
MemSeg(v) == (IF v % 16 # 0 THEN ((v % 16777216) - (v % 16)) + 16 ELSE v) \div 16

\* lines 1208-1235: the 0x50 bytes of an instrument header
S3mInstrumentHeader(inst, seg) ==
    LET s == samples[inst + 1]
    IN  <<1>> \o Zeros(12)
        \o <<(seg \div 65536) % 256, seg % 256, (seg \div 256) % 256>>
        \o LE32(s.size) \o LE32(s.size - s.loopLength) \o LE32(s.size + 1)
        \o <<s.volDefault, 0, 0, IF s.loop # 0 THEN 1 ELSE 0>>
        \o LE32(s.c2Freq) \o Zeros(12)
        \o NameField(SampleText, inst, 28, 0)
        \o <<83, 67, 82, 83>>

\* lines 1197-1237 for the instruments lo..hi (counted from 0), in order
RECURSIVE S3mInstrumentHeaders(_, _, _, _)
S3mInstrumentHeaders(lo, hi, cnt, acc) ==
    IF lo > hi THEN acc
    ELSE IF lo = hi
    THEN LET inst   == S3mSampleIndex(lo)
             padded == Pad16(acc.f)
             v      == 96 + mod.numOrders + cnt * 82 + patternCount * 2 + 32
                       + acc.offset + acc.pad
         IN  [f      |-> Put(padded, S3mInstrumentHeader(inst, MemSeg(v))),
              pad    |-> acc.pad + PadOf(v),
              offset |-> acc.offset + samples[inst + 1].size,
              starts |-> Append(acc.starts,
                                [kind |-> "instrument", pos |-> padded.len,
                                 pad |-> padded.len - acc.f.len])]
    ELSE LET mid == (lo + hi) \div 2
             left == S3mInstrumentHeaders(lo, mid, cnt, acc)
         IN  Then(left, S3mInstrumentHeaders(mid + 1, hi, cnt, left))

\* lines 1303-1308 for the samples of the instruments lo..hi, in order
RECURSIVE S3mSampleBodies(_, _, _)
S3mSampleBodies(lo, hi, acc) ==
    IF lo > hi THEN acc
    ELSE IF lo = hi
    THEN LET padded == Pad16(acc.f)
         IN  [f      |-> Put(padded, samples[S3mSampleIndex(lo) + 1].data),
              starts |-> Append(acc.starts,
                                [kind |-> "sample", pos |-> padded.len,
                                 pad |-> padded.len - acc.f.len])]
    ELSE LET mid == (lo + hi) \div 2
             left == S3mSampleBodies(lo, mid, acc)
         IN  Then(left, S3mSampleBodies(mid + 1, hi, left))

(***************************************************************************)
(* unkrawerter_writeModuleToS3M: the rows of a pattern.                    *)
(***************************************************************************)
\* line 1111: the value of nextInstrument at which a new instrument is refused
S3mTrimStop == 255

\* lines 1096-1122 from the entry at p to the end of its row
RECURSIVE ScanRow(_, _, _, _)
ScanRow(d, p, legacy, acc) ==
    IF d[p + 1] = 0 THEN [acc EXCEPT !.next = p + 1]
    ELSE LET e     == DecodeEntry(d, p, legacy)
             fresh == e.hasNote /\ e.instrument # 0
                      /\ ListIndex(acc.map, e.instrument) = 0
         IN  IF fresh /\ acc.nextI = S3mTrimStop
             THEN [acc EXCEPT !.failed = TRUE]
             ELSE Then(acc, ScanRow(d, e.next, legacy,
                    IF fresh
                    THEN [acc EXCEPT !.map = Append(@, e.instrument),
                                     !.nextI = U8(@ + 1)]
                    ELSE acc))

\* lines 1265-1266
S3mNote(note) ==
    IF note >= 97 \/ note = 0 THEN 254
    ELSE ((note - 1) \div 12) * 16 + ((note - 1) % 12)

\* line 1267
S3mInstrument(instrument, map) ==
    IF trimInstruments
    THEN (IF instrument = 0 THEN 0 ELSE ListIndex(map, instrument))
    ELSE U8(instrument)

\* lines 1271-1278
S3mVolume(v) ==
    IF v < 16 THEN [byte |-> 255, special |-> FALSE]
    ELSE IF v <= 80 THEN [byte |-> v - 16, special |-> FALSE]
    ELSE IF v >= 192 /\ v < 208 THEN [byte |-> U8((v - 64) * 4), special |-> FALSE]
    ELSE [byte |-> 255, special |-> TRUE]

\* lines 1283-1298
S3mEffect(effect, op) ==
    IF effect = 3 THEN <<IF op >= 32 THEN 29 ELSE 10, op>>
    ELSE LET m == EffectMapS3M[effect + 1]
             o == IF effect = 9 THEN U8(op * 16) ELSE op
             s == BitOr(m[1], BitAnd(o, m[2]))
         IN  <<s \div 256, s % 256>>

\* lines 1250-1299 from the entry at p to the end of its row
RECURSIVE S3mRowBytes(_, _, _, _)
S3mRowBytes(d, p, legacy, acc) ==
    IF d[p + 1] = 0 THEN [acc EXCEPT !.bytes = @ \o <<0>>, !.next = p + 1]
    ELSE LET e    == DecodeEntry(d, p, legacy)
             v    == S3mVolume(e.volume)
             warn == e.hasVol /\ v.special
             bs   == <<e.follow>>
                     \o (IF e.hasNote
                         THEN <<S3mNote(e.note),
                                S3mInstrument(e.instrument, instrumentMap)>>
                         ELSE <<>>)
                     \o (IF e.hasVol THEN <<v.byte>> ELSE <<>>)
                     \o (IF e.hasEff THEN S3mEffect(e.effect, e.effectop) ELSE <<>>)
         IN  Then(acc, S3mRowBytes(d, e.next, legacy,
                [bytes    |-> acc.bytes \o bs,
                 warnings |-> IF warn THEN BitOr(acc.warnings, 1) ELSE acc.warnings,
                 log      |-> IF warn /\ BitAnd(acc.warnings, 1) = 0
                              THEN Append(acc.log, "volume-column") ELSE acc.log,
                 next     |-> acc.next]))

\* line 1081 without the test of the rows
S3mUnsupportedFlagOnly(m) == m.flagInstrumentBased # 0

\* line 1081
S3mUnsupported(m) == m.flagInstrumentBased # 0 \/ m.patterns[1].rows # 64

\* mod->patterns[i]->data.  The data of a long pattern is not held byte by
\* byte: each of its rows is rowFill entries of the one byte 1 (channel 1,
\* nothing follows) and the row's terminator
DataOf(pat) ==
    IF "rowFill" \in DOMAIN pat
    THEN [j \in 1..pat.length |-> IF j % (pat.rowFill + 1) = 0 THEN 0 ELSE 1]
    ELSE pat.data

\* lines 1094 and 1249: the row loop goes on
MoreRows == row < 64 /\ dataPos < mod.patterns[pidx + 1].length

(***************************************************************************)
(* unkrawerter_writeModuleToS3M as a state machine.                        *)
(***************************************************************************)
\* lines 1065-1091
S3mBegin ==
    /\ pc = "s3m"
    /\ IF Len(samples) > 255 /\ ~trimInstruments
       THEN Return(10, <<"no-trim">>)
            /\ UNCHANGED <<patternCount, nextInstrument>>
       ELSE IF ~canOpen
       THEN Return(2, <<"open">>)
            /\ UNCHANGED <<patternCount, nextInstrument>>
       ELSE IF mod.flagInstrumentBased = 0 /\ mod.patterns = <<>>
       THEN \* mod->patterns[0] was never set: a wild pointer
            /\ Return(Crashed, <<>>)
            /\ patternCount' = PatternCountOf(mod)
            /\ UNCHANGED nextInstrument
       ELSE IF S3mUnsupported(mod)
       THEN Return(3, <<"unsupported">>)
            /\ patternCount' = PatternCountOf(mod)
            /\ UNCHANGED nextInstrument
       ELSE /\ patternCount' = PatternCountOf(mod)
            /\ nextInstrument' = IF trimInstruments THEN 1 ELSE nextInstrument
            /\ pc' = IF trimInstruments /\ PatternCountOf(mod) > 0
                     THEN "s3m_scan" ELSE "s3m_header"
            /\ UNCHANGED <<result, stderrLog>>
    /\ UNCHANGED <<mainVars, version, scanVars, modVars, jobVars, out, outPos, pidx, row,
                   dataPos, warnings, xmVars, instrumentMap, paddingBytes, offset,
                   blockStarts, deltaVars>>

\* lines 1094-1124: the instruments of one row are numbered
S3mScanRow ==
    /\ pc = "s3m_scan"
    /\ pidx < Len(mod.patterns)
    /\ MoreRows
    /\ LET s == ScanRow(DataOf(mod.patterns[pidx + 1]), dataPos, Legacy,
                        [map |-> instrumentMap, nextI |-> nextInstrument,
                         failed |-> FALSE, next |-> dataPos])
       IN  /\ instrumentMap' = s.map
           /\ nextInstrument' = s.nextI
           /\ IF s.failed
              THEN Return(3, <<"too-many-instruments">>)
                   /\ UNCHANGED <<row, dataPos>>
              ELSE /\ row' = row + 1
                   /\ dataPos' = s.next
                   /\ UNCHANGED <<pc, result, stderrLog>>
    /\ UNCHANGED <<mainVars, version, scanVars, modVars, jobVars, out, outPos, patternCount,
                   pidx, warnings, xmVars, paddingBytes, offset, blockStarts,
                   deltaVars>>

\* lines 1092-1094: the next pattern is scanned, or the scan is over
S3mScanPatternEnd ==
    /\ pc = "s3m_scan"
    /\ IF pidx >= Len(mod.patterns)
       THEN \* mod->patterns[i] was never set: a wild pointer
            /\ Return(Crashed, <<>>)
            /\ UNCHANGED <<pidx, row, dataPos>>
       ELSE /\ ~MoreRows
            /\ pidx' = IF pidx + 1 < patternCount THEN pidx + 1 ELSE 0
            /\ row' = 0
            /\ dataPos' = 0
            /\ pc' = IF pidx + 1 < patternCount THEN "s3m_scan" ELSE "s3m_header"
            /\ UNCHANGED <<result, stderrLog>>
    /\ UNCHANGED <<mainVars, version, scanVars, modVars, jobVars, out, outPos, patternCount,
                   warnings, xmVars, s3mVars, deltaVars>>

\* lines 1128-1194: the header, the orders, the parapointers, the pan positions
S3mHeader ==
    /\ pc = "s3m_header"
    /\ LET cnt  == S3mInstrumentCount(instrumentMap)
           ip   == InstrumentPointers(0, cnt - 1, cnt, [bytes |-> <<>>, pad |-> 0])
           pp   == PatternPointers(0, cnt,
                                   [bytes |-> <<>>, pad |-> ip.pad, offset |-> 0,
                                    failed |-> FALSE, wild |-> FALSE])
           head == S3mSongHeader(cnt) \o ip.bytes \o pp.bytes
       IN  /\ paddingBytes' = pp.pad
           /\ offset' = pp.offset
           /\ IF pp.wild
              THEN /\ out' = Put(out, head)
                   /\ Return(Crashed, <<>>)
              ELSE IF pp.failed
              THEN /\ out' = Put(out, head)
                   /\ Return(3, <<"unsupported-pattern">>)
              ELSE /\ out' = Put(out, head \o PanPositions)
                   /\ pc' = "s3m_instruments"
                   /\ UNCHANGED <<result, stderrLog>>
           /\ outPos' = out'.len
    /\ UNCHANGED <<mainVars, version, scanVars, modVars, jobVars, loopVars, xmVars,
                   instrumentMap, nextInstrument, blockStarts, deltaVars>>

\* lines 1196-1237: every instrument header
S3mInstruments ==
    /\ pc = "s3m_instruments"
    /\ LET cnt == S3mInstrumentCount(instrumentMap)
           r   == S3mInstrumentHeaders(0, cnt - 1, cnt,
                                       [f |-> out, pad |-> paddingBytes,
                                        offset |-> offset, starts |-> blockStarts])
       IN  /\ out' = r.f
           /\ outPos' = r.f.len
           /\ paddingBytes' = r.pad
           /\ offset' = r.offset
           /\ blockStarts' = r.starts
    /\ pidx' = 0
    /\ pc' = "s3m_pattern"
    /\ UNCHANGED <<mainVars, version, scanVars, modVars, jobVars, result, stderrLog,
                   patternCount, row, dataPos, warnings, xmVars, instrumentMap,
                   nextInstrument, deltaVars>>

\* lines 1241-1247: the padding and the length field of the pattern pidx
S3mPatternHeader ==
    /\ pc = "s3m_pattern"
    /\ pidx < patternCount
    /\ LET padded == Pad16(out)
       IN  /\ out' = Put(padded, LE16(mod.patterns[pidx + 1].s3mlength))
           /\ outPos' = out'.len
           /\ blockStarts' = Append(blockStarts,
                                    [kind |-> "pattern", pos |-> padded.len,
                                     pad |-> padded.len - out.len])
    /\ row' = 0
    /\ dataPos' = 0
    /\ warnings' = 0
    /\ pc' = "s3m_row"
    /\ UNCHANGED <<mainVars, version, scanVars, modVars, jobVars, result, stderrLog,
                   patternCount, pidx, xmVars, instrumentMap, nextInstrument,
                   paddingBytes, offset, deltaVars>>

\* lines 1249-1300: one row is converted and written
S3mRow ==
    /\ pc = "s3m_row"
    /\ MoreRows
    /\ LET r == S3mRowBytes(DataOf(mod.patterns[pidx + 1]), dataPos, Legacy,
                            [bytes |-> <<>>, warnings |-> warnings, log |-> <<>>,
                             next |-> dataPos])
       IN  /\ out' = Put(out, r.bytes)
           /\ outPos' = out'.len
           /\ warnings' = r.warnings
           /\ stderrLog' = stderrLog \o r.log
           /\ dataPos' = r.next
    /\ row' = row + 1
    /\ UNCHANGED <<pc, mainVars, version, scanVars, modVars, jobVars, result, patternCount,
                   pidx, xmVars, s3mVars, deltaVars>>

\* line 1249: the rows of the pattern are done
S3mPatternEnd ==
    /\ pc = "s3m_row"
    /\ ~MoreRows
    /\ pidx' = pidx + 1
    /\ pc' = "s3m_pattern"
    /\ UNCHANGED <<mainVars, version, scanVars, modVars, jobVars, fileVars, patternCount,
                   row, dataPos, warnings, xmVars, s3mVars, deltaVars>>

\* lines 1302-1314: the sample data, and the function returns 0
S3mSamples ==
    /\ pc = "s3m_pattern"
    /\ ~(pidx < patternCount)
    /\ LET r == S3mSampleBodies(0, S3mInstrumentCount(instrumentMap) - 1,
                                [f |-> out, starts |-> blockStarts])
       IN  /\ out' = r.f
           /\ outPos' = r.f.len
           /\ blockStarts' = r.starts
    /\ Return(0, <<>>)
    /\ UNCHANGED <<mainVars, version, scanVars, modVars, jobVars, loopVars, xmVars,
                   instrumentMap, nextInstrument, paddingBytes, offset, deltaVars>>

NextS3M ==
    \/ S3mBegin
    \/ S3mScanRow
    \/ S3mScanPatternEnd
    \/ S3mHeader
    \/ S3mInstruments
    \/ S3mPatternHeader
    \/ S3mRow
    \/ S3mPatternEnd
    \/ S3mSamples

(***************************************************************************)
(* The modules the S3M writer is run on.                                   *)
(***************************************************************************)
\* the Pattern of the given number of rows: the items, then empty rows
RowsPattern(items, rows, legacy) ==
    PatternOf(items \o [k \in 1..(rows - 1 - RowsOf(items)) |-> EndRow], legacy)

\* the numbers of rows tried: the one S3M wants and one less
RowCounts == {63, 64}

S3mModules(legacy) ==
    {ModuleOf(2, <<0>>, ib, amiga, 6, <<RowsPattern(items, rows, legacy)>>) :
        ib \in {0, 1}, amiga \in {0, 1}, rows \in RowCounts, items \in SmallItems}

\* modules of two patterns, played in the order 1, 0; the second pattern may
\* be too short
S3mTwoPatternModules(legacy) ==
    {ModuleOf(2, <<1, 0>>, 0, 0, 6,
              <<RowsPattern(<<NoteEntry(0, 49, 1), EndRow, EffectEntry(0, 11, 255)>>,
                            64, legacy),
                RowsPattern(<<FullEntry(1, 13, 2, 16, 27, 1)>>, rows, legacy)>>) :
        rows \in RowCounts}

InitS3MWith(modules(_)) ==
    /\ pc = "s3m"
    /\ version \in Versions
    /\ IdleScan
    /\ IdleMain
    /\ IdleMod
    /\ mod \in modules(version < VersionCutoff)
    /\ samples = SmallSamples
    /\ instruments = <<>>
    /\ trimInstruments \in BOOLEAN
    /\ fixCompatibility = FALSE
    /\ name = <<>>
    /\ canOpen = TRUE
    /\ IdleFile
    /\ IdleLoops
    /\ IdleXM
    /\ IdleS3M
    /\ IdleDelta

\* the environment varies: the file cannot be opened, a title is given, a
\* pattern was not read
InitS3MEnvironment ==
    /\ pc = "s3m"
    /\ version = DefaultVersion
    /\ IdleScan
    /\ IdleMain
    /\ IdleMod
    /\ mod \in S3mTwoPatternModules(FALSE)
              \cup {[m EXCEPT !.patterns = SubSeq(@, 1, 1)] :
                        m \in S3mTwoPatternModules(FALSE)}
              \cup {[m EXCEPT !.flagInstrumentBased = 1, !.patterns = <<>>] :
                        m \in S3mTwoPatternModules(FALSE)}
    /\ samples = SmallSamples
    /\ instruments = <<>>
    /\ trimInstruments \in BOOLEAN
    /\ fixCompatibility = FALSE
    /\ name \in {<<>>, <<65, 66>>, [k \in 1..29 |-> 64 + k]}
    /\ canOpen \in BOOLEAN
    /\ IdleFile
    /\ IdleLoops
    /\ IdleXM
    /\ IdleS3M
    /\ IdleDelta

InitS3M ==
    InitS3MWith(S3mModules) \/ InitS3MWith(S3mTwoPatternModules) \/ InitS3MEnvironment

SpecS3M == InitS3M /\ [][NextS3M]_vars

(***************************************************************************)
(* Claims about the S3M file.                                              *)
(***************************************************************************)
\* C7: S3M 16-byte alignment: in every successfully written S3M file each
\* instrument header, each pattern block (from its 2-byte length field) and
\* each sample body begins at a file offset that is a multiple of 16.
C7_S3mAlignment ==
    (pc = "done" /\ result = 0) =>
        \A k \in 1..Len(blockStarts) : blockStarts[k].pos % 16 = 0

\* a written file in which a header, a pattern and a sample body each had to
\* be padded
C7_Witness ==
    /\ pc = "done"
    /\ result = 0
    /\ \A kind \in {"instrument", "pattern", "sample"} :
          \E k \in 1..Len(blockStarts) :
              blockStarts[k].kind = kind /\ blockStarts[k].pad > 0

\* C9: S3M capability gate: the S3M writer returns a non-zero error code and
\* writes no header, pattern or sample bytes whenever flagInstrumentBased is
\* set or the first pattern's row count is not 64.
C9_S3mGate ==
    (pc = "done"
     /\ (mod.flagInstrumentBased # 0
         \/ (mod.patterns # <<>> /\ mod.patterns[1].rows # 64))) =>
        (result \in {2, 3, 10} /\ out = EmptyFile)

\* the writer has refused a sample-based module whose first pattern has 63 rows
C9_Witness ==
    /\ pc = "done"
    /\ result = 3
    /\ canOpen
    /\ mod.flagInstrumentBased = 0
    /\ mod.patterns # <<>>
    /\ mod.patterns[1].rows = 63
    /\ out = EmptyFile

(***************************************************************************)
(* The delta loop of lines 988-992 and 1045-1049, one byte at a time.      *)
(***************************************************************************)
\* the length of the samples tried
MaxSample == 3

\* the sample bytes tried: the ends and the middle of the signed range
SampleBytes == {0, 1, 127, 128, 255}

SampleSeqs == UNION {SeqsOfLen(SampleBytes, n) : n \in 0..MaxSample}

\* the body of the loop for the byte s->data[k]
DeltaStep ==
    /\ pc = "delta"
    /\ sk < Len(sdata)
    /\ out' = Put(out, <<DeltaByte(sdata[sk + 1], old)>>)
    /\ outPos' = out'.len
    /\ old' = OldAfter(sdata[sk + 1])
    /\ sk' = sk + 1
    /\ UNCHANGED <<pc, mainVars, version, scanVars, modVars, jobVars, result, stderrLog,
                   loopVars, xmVars, s3mVars, sdata>>

\* k has reached s->size
DeltaDone ==
    /\ pc = "delta"
    /\ ~(sk < Len(sdata))
    /\ pc' = "done"
    /\ UNCHANGED <<mainVars, version, scanVars, modVars, writerVars>>

NextDelta == DeltaStep \/ DeltaDone

InitDelta ==
    /\ pc = "delta"
    /\ version = DefaultVersion
    /\ IdleScan
    /\ IdleMain
    /\ IdleMod
    /\ IdleJob
    /\ IdleFile
    /\ IdleLoops
    /\ IdleXM
    /\ IdleS3M
    /\ sdata \in SampleSeqs
    /\ sk = 0
    /\ old = 0

SpecDelta == InitDelta /\ [][NextDelta]_vars

\* the sum of the first k bytes of the file f
RECURSIVE RunningSum(_, _)
RunningSum(f, k) == IF k = 0 THEN 0 ELSE RunningSum(f, k - 1) + ByteAt(f, k - 1)

\* C8: delta round-trip: the running sum modulo 256 of the delta bytes
\* emitted (starting from 0) reproduces, byte for byte, the sequence
\* (signed sample byte + 0x80) mod 256.
C8_DeltaRoundTrip ==
    pc \in {"delta", "done"} =>
        /\ out.len = sk
        /\ \A k \in 1..sk :
              RunningSum(out, k) % 256 = (SignedChar(sdata[k]) + 128) % 256

\* a whole sample has been written, and one of its deltas was negative
C8_Witness ==
    /\ pc = "done"
    /\ sk = MaxSample
    /\ out.len = MaxSample
    /\ \E k \in 2..sk : SignedChar(sdata[k]) < SignedChar(sdata[k - 1])

(***************************************************************************)
(* The instrument limit of the two writers.                                *)
(***************************************************************************)
\* the channels of the modules that reference many instruments
TrimChannels == 4

\* the numbers of distinct instruments tried
TrimCounts == {253, 254, 255, 256}

\* 64 rows of TrimChannels notes each: the notes use the instruments 1..d in
\* turn, the notes after them the instrument 1 again
TrimItems(d) ==
    [k \in 1..(64 * (TrimChannels + 1) - 1) |->
        LET r == (k - 1) \div (TrimChannels + 1)
            c == (k - 1) % (TrimChannels + 1)
            n == r * TrimChannels + c + 1
        IN  IF c = TrimChannels THEN EndRow
            ELSE NoteEntry(c, 49, IF n <= d THEN n ELSE 1)]

TrimModule(d, legacy) ==
    ModuleOf(TrimChannels, <<0>>, 0, 0, 6, <<PatternOf(TrimItems(d), legacy)>>)

\* one empty sample for every instrument number
TrimSamples == [k \in 1..256 |-> SampleOf(<<>>, 0)]

InitTrim ==
    /\ pc \in {"xm", "s3m"}
    /\ version \in Versions
    /\ IdleScan
    /\ IdleMain
    /\ IdleMod
    /\ mod \in {TrimModule(d, version < VersionCutoff) : d \in TrimCounts}
    /\ samples = TrimSamples
    /\ instruments = <<>>
    /\ trimInstruments = TRUE
    /\ fixCompatibility = FALSE
    /\ name = <<>>
    /\ canOpen = TRUE
    /\ IdleFile
    /\ IdleLoops
    /\ IdleXM
    /\ IdleS3M
    /\ IdleDelta

NextTrim == NextXM \/ NextS3M

SpecTrim == InitTrim /\ [][NextTrim]_vars

\* the number of distinct non-zero instruments the items reference
DistinctInstruments(items) ==
    Cardinality({items[k].instrument : k \in 1..Len(items)} \ {0})

\* the row (from 0) that holds the n-th distinct instrument of TrimItems
TrimRow(n) == (n - 1) \div TrimChannels

\* C10: with trimInstruments true a module whose patterns reference at most 254
\* distinct non-zero instruments is written successfully (return 0), and one
\* that references 255 or more makes the writer fail with a non-zero code at
\* the point the 255th distinct instrument is met, for the XM and the S3M
\* writer alike.
C10_TrimLimit ==
    pc = "done" =>
        LET d == CHOOSE n \in TrimCounts : mod = TrimModule(n, Legacy)
            distinct == DistinctInstruments(TrimItems(d))
        IN  /\ distinct <= 254 => result = 0
            /\ distinct >= 255 =>
                  /\ result = 3
                  /\ row = TrimRow(255)
                  /\ (Len(instrumentList) = 254 \/ Len(instrumentMap) = 254)
                  /\ instrumentList = <<>> => out = EmptyFile

\* the XM writer has written a module of exactly 254 distinct instruments
C10_Witness ==
    /\ pc = "done"
    /\ result = 0
    /\ trimInstruments
    /\ DistinctInstruments(TrimItems(254)) = 254
    /\ mod = TrimModule(254, Legacy)
    /\ Len(instrumentList) = 254

(***************************************************************************)
(* The portamento fix of lines 740-783 over two rows of one channel.       *)
(***************************************************************************)
\* an entry with an effect, with or without a note
NoteEffectEntry(ch, hasNote, note, inst, eff, op) ==
    [channel |-> ch, hasNote |-> hasNote, note |-> IF hasNote THEN note ELSE 0,
     instrument |-> IF hasNote THEN inst ELSE 0, hasVol |-> FALSE, volume |-> 0,
     hasEff |-> TRUE, effect |-> eff, effectop |-> op]

\* the Krawall effects effectMap_xm turns into a portamento down (0x02, 0x0E2x,
\* 0x212x): lines 438-441
PortaDownEffects == {10, 11, 12, 13}

\* the first row: a low note with a portamento down
PortaFirstEntries ==
    {NoteEffectEntry(0, TRUE, note, 1, eff, op) :
        note \in {1, 3}, eff \in {10, 11}, op \in {5, 1}}

\* the second row: a portamento with no note, with a note off, with a new note
PortaSecondEntries ==
    {NoteEffectEntry(0, n[1], n[2], 1, e[1], e[2]) :
        n \in {<<FALSE, 0>>, <<TRUE, 0>>, <<TRUE, 50>>},
        e \in {<<10, 5>>, <<11, 0>>, <<11, 243>>, <<13, 12>>, <<14, 1>>, <<18, 64>>}}

PortaSpeeds == {6, 3}

PortaModules(legacy) ==
    {ModuleOf(2, <<0>>, 0, amiga, spd,
              <<PatternOf(<<first, EndRow, second>>, legacy)>>) :
        amiga \in {0, 1}, spd \in PortaSpeeds, first \in PortaFirstEntries,
        second \in PortaSecondEntries}

InitPorta == InitXMWith(PortaModules)

SpecPorta == InitPorta /\ [][NextXM]_vars

\* the first entry of the pattern being written, and the entry after the row
\* terminator that follows it
FirstEntry == DecodeEntry(mod.patterns[pidx + 1].data, 0, Legacy)

SecondEntry == DecodeEntry(mod.patterns[pidx + 1].data, FirstEntry.next + 1, Legacy)

\* the second row's entry has been converted: the first row was note 1 with a
\* portamento down of operand 5 on a channel of the module, at speed 6, and
\* the second row holds a portamento down on the same channel
PortaScenario ==
    /\ pc = "xm_row"
    /\ fixCompatibility
    /\ mod.flagAmigaLimits = 0
    /\ mod.initSpeed = 6
    /\ FirstEntry.channel < mod.channels
    /\ FirstEntry.hasNote /\ FirstEntry.note = 1
    /\ FirstEntry.hasEff /\ FirstEntry.effect \in {10, 11} /\ FirstEntry.effectop = 5
    /\ mod.patterns[pidx + 1].data[FirstEntry.next + 1] = 0
    /\ SecondEntry.channel = FirstEntry.channel
    /\ SecondEntry.hasEff /\ SecondEntry.effect \in PortaDownEffects
    /\ row = 1
    /\ dataPos = SecondEntry.next

\* the cell is a note cut without an effect column
IsNoteCut(c) ==
    /\ c.note = 97
    /\ c.effect = 0
    /\ c.effectop = 0
    /\ BitAnd(c.xmflag, 24) = 0
    /\ BitAnd(c.xmflag, 1) = 1

\* the entry brings a note that restarts the portamento: line 746
BringsNote(e) == e.hasNote /\ XmNote(e.hasNote, e.note) < 97

\* C11 as stated: with fixCompatibility on, flagAmigaLimits clear and speed 6,
\* after a first row of note 1 with a portamento down of operand 5, every
\* portamento down on that channel in the following row is emitted as a note
\* cut (note 97, effect column removed).
\* Violated: a second-row entry that brings a new note restarts the tracked
\* pitch at note * 16 (line 746) and is emitted as a slide.
C11_PortaCutAnyEntry ==
    PortaScenario => IsNoteCut(thisrow[FirstEntry.channel + 1])

\* C11, amended: the same, for a portamento down in the following row that
\* brings no new note (no note bytes, or a note that decodes to 97).
C11_PortaCut ==
    (PortaScenario /\ ~BringsNote(SecondEntry)) =>
        IsNoteCut(thisrow[FirstEntry.channel + 1])

\* the second row's portamento down, without a note, has become a note cut
C11_Witness ==
    /\ PortaScenario
    /\ ~SecondEntry.hasNote
    /\ SecondEntry.effect = 10
    /\ SecondEntry.effectop = 5
    /\ memory[FirstEntry.channel + 1].porta < 0
    /\ IsNoteCut(thisrow[FirstEntry.channel + 1])

(***************************************************************************)
(* The warnings of the XM writer: lines 610 and 646-727.                   *)
(***************************************************************************)
\* the entries of the rows of a pattern, from position p of its data on
RECURSIVE EntriesFrom(_, _, _, _)
EntriesFrom(d, p, rowsLeft, legacy) ==
    IF rowsLeft = 0 THEN <<>>
    ELSE IF d[p + 1] = 0 THEN EntriesFrom(d, p + 1, rowsLeft - 1, legacy)
    ELSE LET e == DecodeEntry(d, p, legacy)
         IN  <<e>> \o EntriesFrom(d, e.next, rowsLeft, legacy)

\* the entries of the pattern k (counted from 0) of the module
PatternEntries(k) ==
    EntriesFrom(mod.patterns[k + 1].data, 0, mod.patterns[k + 1].rows, Legacy)

\* how many entries of the pattern k carry the Krawall effect eff
EffectCount(k, eff) ==
    LET es == PatternEntries(k)
    IN  Cardinality({j \in 1..Len(es) : es[j].hasEff /\ es[j].effect = eff})

\* the pattern k holds an entry line 722 prints the S3M warning for
ReachesS3MWarning(k) ==
    LET es == PatternEntries(k)
    IN  \E j \in 1..Len(es) :
            /\ es[j].hasEff
            /\ es[j].effect = 1
            /\ es[j].effectop >= 32

\* how many times the message msg is in the log
MessageCount(log, msg) == Cardinality({j \in 1..Len(log) : log[j] = msg})

WarnEntries ==
    {EffectEntry(0, 25, 16), EffectEntry(1, 25, 0), EffectEntry(0, 1, 32), EndRow}

\* the length of the first pattern of the modules tried
MaxWarnItems == 3

WarnModules(legacy) ==
    {ModuleOf(2, <<0, 1>>, 0, 0, 6,
              <<PatternOf(first, legacy), PatternOf(second, legacy)>>) :
        first \in UNION {SeqsOfLen(WarnEntries, n) : n \in 1..MaxWarnItems},
        second \in {<<>>, <<EffectEntry(0, 25, 16)>>,
                    <<EffectEntry(0, 25, 16), EndRow, EffectEntry(1, 25, 16)>>}}

InitWarn == InitXMWith(WarnModules)

SpecWarn == InitWarn /\ [][NextXM]_vars

\* every row of the pattern pidx has been converted
PatternConverted ==
    /\ pc = "xm_row"
    /\ ~(row < mod.patterns[pidx + 1].rows)

\* C12: in XM output a pattern in which the Krawall effect 25 occurs n >= 1
\* times produces exactly one warning for that pattern, for every n; the
\* warning state is reset for the next pattern, and each occurrence has its
\* effect column dropped.
\* Violated: effectMap_xm[25] is 0xFFFF, so line 653 drops the effect before
\* the branch of line 722 is reached, and no warning is printed at all.
C12_OneWarningPerPattern ==
    /\ (PatternConverted /\ EffectCount(pidx, 25) >= 1) =>
          /\ BitAnd(warnings, 2) = 2
          /\ MessageCount(stderrLog, "s3m-effect")
                = Cardinality({k \in 0..pidx :
                      EffectCount(k, 25) >= 1 \/ ReachesS3MWarning(k)})
    /\ (pc = "xm_row" /\ row = 0 /\ dataPos = 0) => warnings = 0
    /\ (pc = "xm_row" /\ row = 0 /\ dataPos > 0 /\ dataPos = FirstEntry.next
        /\ FirstEntry.hasEff /\ FirstEntry.effect = 25
        /\ FirstEntry.channel < mod.channels) =>
          /\ thisrow[FirstEntry.channel + 1].effect = 0
          /\ BitAnd(thisrow[FirstEntry.channel + 1].xmflag, 24) = 0

(***************************************************************************)
(* The note and instrument bytes of an entry under the version keys.       *)
(***************************************************************************)
\* the version keys tried: two of 2003 and 2005 and the two around line 632
DecodeVersions == {537071617, LegacyVersion, VersionCutoff, 537198849}

\* the entries tried, as bytes: follow, note byte, instrument byte; with an
\* effect the bytes of a vibrato follow
RawEntries ==
    {<<follow, b1, b2>> \o (IF follow >= 128 THEN <<20, 1>> ELSE <<>>) :
        follow \in {32, 33, 160}, b1 \in {10, 11}, b2 \in {255, 1}}

\* the Pattern of 64 rows whose first row holds the bytes of one entry
RawPattern(bytes, legacy) ==
    ReadPatternFile((IF legacy THEN <<64>> ELSE LE16(64)) \o bytes \o Zeros(64),
                    legacy)

\* one empty sample for every instrument number of nine bits
DecodeSamples == [k \in 1..511 |-> SampleOf(<<>>, 0)]

InitDecode ==
    /\ pc \in {"xm", "s3m"}
    /\ version \in DecodeVersions
    /\ IdleScan
    /\ IdleMain
    /\ IdleMod
    /\ mod \in {ModuleOf(2, <<0>>, 0, 0, 6,
                         <<RawPattern(bytes, version < VersionCutoff)>>) :
                    bytes \in RawEntries}
    /\ samples = DecodeSamples
    /\ instruments = <<>>
    /\ trimInstruments \in BOOLEAN
    /\ fixCompatibility \in BOOLEAN
    /\ name = <<>>
    /\ canOpen = TRUE
    /\ IdleFile
    /\ IdleLoops
    /\ IdleXM
    /\ IdleS3M
    /\ IdleDelta

\* either writer runs on the module
SpecDecode == InitDecode /\ [][NextTrim]_vars

\* the first entry of the first pattern holds the note byte b1 and the
\* instrument byte b2, and a writer has just worked on it
RawFirst(b1, b2) ==
    /\ BitAnd(mod.patterns[1].data[1], 32) = 32
    /\ mod.patterns[1].data[2] = b1
    /\ mod.patterns[1].data[3] = b2
    /\ pidx = 0

\* the XM writer has stored the cell of the first entry
XmStoredFirst ==
    /\ pc = "xm_row"
    /\ row = 0
    /\ dataPos = FirstEntry.next

\* what each of the three readers of the entry made of it: the cell of the XM
\* writer, the instrument the S3M pre-pass numbered, the note byte and the
\* instrument number the S3M pattern writer wrote
DecodedAs(note, instrument) ==
    /\ XmStoredFirst =>
          /\ thisrow[FirstEntry.channel + 1].note = note
          /\ thisrow[FirstEntry.channel + 1].instrument = instrument
    /\ (pc = "s3m_scan" /\ row = 1) => instrumentMap = <<instrument>>
    /\ (pc = "s3m_row" /\ row = 1) =>
          /\ ByteAt(out, blockStarts[Len(blockStarts)].pos + 3) = note - 1
          /\ ByteAt(out, blockStarts[Len(blockStarts)].pos + 4) = 1
          /\ instrumentMap = <<instrument>>

\* C13 as stated: an entry with follow 0x20, first byte 0x0A and second byte
\* 0xFF decodes to (note 5, instrument 0x1FF) under the version key 0x20031001
\* and to (note 0x0A, instrument 0xFF) under 0x20050101, in the XM writer, the
\* S3M trimming pre-pass and the S3M pattern writer.
\* Violated: the low bit of 0x0A is 0, so the legacy instrument is 0xFF.
C13_DecodeAsStated ==
    RawFirst(10, 255) =>
        /\ version = 537071617 => DecodedAs(5, 511)
        /\ version = 537198849 => DecodedAs(10, 255)

\* C13, amended: under a version key below 0x20040707 the note is the first
\* byte shifted right by one and its low bit becomes bit 8 of the instrument,
\* so 0x0A 0xFF is (note 5, instrument 0xFF) and 0x0B 0xFF is (note 5,
\* instrument 0x1FF); from 0x20040707 on they are (0x0A, 0xFF) and (0x0B,
\* 0xFF); the three readers of the entry agree.
C13_Decode ==
    /\ RawFirst(10, 255) =>
          IF version < 537134855 THEN DecodedAs(5, 255) ELSE DecodedAs(10, 255)
    /\ RawFirst(11, 255) =>
          IF version < 537134855 THEN DecodedAs(5, 511) ELSE DecodedAs(11, 255)
    /\ RawFirst(11, 1) =>
          IF version < 537134855 THEN DecodedAs(5, 257) ELSE DecodedAs(11, 1)

\* the XM writer has stored the cell of 0x20 0x0A 0xFF under the key 0x20031001
C13_Witness ==
    /\ version = 537071617
    /\ RawFirst(10, 255)
    /\ mod.patterns[1].data[1] = 32
    /\ XmStoredFirst
    /\ thisrow[1].note = 5
    /\ thisrow[1].instrument = 255

(***************************************************************************)
(* The speed and tempo effects in S3M output: lines 1280-1298.             *)
(***************************************************************************)
SpeedOperands == {0, 31, 32, 128, 255}

\* 64 rows, the first with one speed (1), tempo (2) or speed-or-tempo (3) effect
SpeedModules(legacy) ==
    {ModuleOf(2, <<0>>, 0, 0, 6,
              <<RowsPattern(<<EffectEntry(ch, eff, op)>>, 64, legacy)>>) :
        ch \in {0, 1}, eff \in {1, 2, 3}, op \in SpeedOperands}

InitSpeed == InitS3MWith(SpeedModules)

SpecSpeed == InitSpeed /\ [][NextS3M]_vars

\* the S3M writer has written the first row of the first pattern, whose first
\* entry holds nothing but the Krawall effect eff
WroteEffect(eff) ==
    /\ pc = "s3m_row"
    /\ pidx = 0
    /\ row = 1
    /\ FirstEntry.follow >= 128
    /\ ~FirstEntry.hasNote
    /\ ~FirstEntry.hasVol
    /\ FirstEntry.effect = eff

\* the effect byte and the operand written for the first entry
WrittenEffect ==
    <<ByteAt(out, blockStarts[Len(blockStarts)].pos + 3),
      ByteAt(out, blockStarts[Len(blockStarts)].pos + 4)>>

\* C14: in S3M output the Krawall effect 3 is emitted as S3M command A (effect
\* byte 1, set speed) with the operand unchanged when op < 0x20, and as S3M
\* command T (effect byte 0x14, set tempo) with the operand unchanged when
\* op >= 0x20.
\* Violated: lines 1282-1284 set the effect byte to 0x0A for op < 0x20 and to
\* 0x1D for op >= 0x20.
C14_SpeedOrTempo ==
    WroteEffect(3) =>
        WrittenEffect = <<IF FirstEntry.effectop < 32 THEN 1 ELSE 20,
                          FirstEntry.effectop>>

(***************************************************************************)
(* The offset effects zeroed after the sample headers: lines 853-858,      *)
(* 971-981 and 1033-1042.                                                  *)
(***************************************************************************)
\* the size of the longer sample tried
LongSample == 512

OffsetSamples == <<SampleOf(<<1, 255, 128>>, 0), SampleOf(Zeros(LongSample), 0)>>

\* the instrument k plays the sample k on every key
OffsetInstruments == <<InstrumentOf(0, 0, 96), InstrumentOf(1, 1, 96)>>

OffsetOperands == {0, 1, 2, 3, 64}

\* one row: a note with the offset effect (Krawall 27) on channel 0, and with
\* or without a second one on channel 1
OffsetModules(legacy) ==
    {ModuleOf(2, <<0>>, ib, 0, 6,
              <<PatternOf(<<NoteEffectEntry(0, TRUE, 49, inst, 27, op)>> \o more,
                          legacy)>>) :
        ib \in {0, 1}, inst \in {1, 2}, op \in OffsetOperands,
        more \in {<<>>, <<NoteEffectEntry(1, TRUE, 49, 2, 27, 2)>>}}

InitOffset ==
    /\ pc = "xm"
    /\ version \in Versions
    /\ IdleScan
    /\ IdleMain
    /\ IdleMod
    /\ mod \in OffsetModules(version < VersionCutoff)
    /\ samples = OffsetSamples
    /\ instruments = OffsetInstruments
    /\ trimInstruments \in BOOLEAN
    /\ fixCompatibility \in BOOLEAN
    /\ name = <<>>
    /\ canOpen = TRUE
    /\ IdleFile
    /\ IdleLoops
    /\ IdleXM
    /\ IdleS3M
    /\ IdleDelta

SpecOffset == InitOffset /\ [][NextXM]_vars

\* the sample the instrument i (counted from 0) plays
ReferencedSample(i) ==
    IF mod.flagInstrumentBased # 0
    THEN samples[instruments[i + 1].samples[1] + 1]
    ELSE samples[i + 1]

\* C15: with fixCompatibility on, an emitted XM offset effect (0x09, operand
\* op) recorded for an instrument has its two bytes at the recorded file
\* position overwritten with zeros exactly when (op << 8) exceeds the size of
\* the referenced sample, and is left unchanged otherwise, in the
\* instrument-based and in the sample-based output path alike.
\* Violated: the instrument-based path zeroes when op >= (size >> 8), line 975.
C15_OffsetFix ==
    (pc = "done" /\ result = 0 /\ fixCompatibility) =>
        \A k \in 1..Len(sampleOffsetList) :
            LET rec == sampleOffsetList[k]
                s   == ReferencedSample(rec.instrument)
            IN  <<ByteAt(out, rec.pos), ByteAt(out, rec.pos + 1)>>
                    = IF rec.effectop * 256 > s.size THEN <<0, 0>>
                      ELSE <<9, rec.effectop>>

(***************************************************************************)
(* The pan fix of lines 784-808 over two rows of channel 0.                *)
(***************************************************************************)
\* the first row: a note, or a pan effect (Krawall 34) that is remembered
PanFirstEntries ==
    {NoteEntry(0, 49, 1), NoteEntry(1, 49, 1), EffectEntry(0, 34, 32),
     EffectEntry(0, 34, 64), EffectEntry(0, 42, 4)}

\* the second row: a note with an instrument and no effect, with the same or
\* another instrument, and a note with a pan effect of its own
PanSecondEntries ==
    {NoteEntry(0, 50, 2), NoteEntry(0, 49, 1),
     NoteEffectEntry(0, TRUE, 50, 2, 34, 16), NoteEffectEntry(0, TRUE, 50, 2, 20, 1)}

\* Module.channelPan[0] as tried
ChannelPans == {0, 64}

PanModules(legacy) ==
    {[ModuleOf(2, <<0>>, ib, 0, 6, <<PatternOf(<<first, EndRow, second>>, legacy)>>)
         EXCEPT !.channelPan[1] = pan] :
        ib \in {0, 1}, pan \in ChannelPans, first \in PanFirstEntries,
        second \in PanSecondEntries}

InitPan == InitXMWith(PanModules)

SpecPan == InitPan /\ [][NextXM]_vars

\* the second row's entry has been converted: channelPan[0] is 0x40 and the
\* entry is a cell of channel 0 with an instrument and no effect
PanScenario ==
    /\ pc = "xm_row"
    /\ fixCompatibility
    /\ mod.flagInstrumentBased = 0
    /\ mod.channelPan[1] = 64
    /\ mod.patterns[pidx + 1].data[FirstEntry.next + 1] = 0
    /\ SecondEntry.channel = 0
    /\ SecondEntry.hasNote
    /\ ~SecondEntry.hasEff
    /\ row = 1
    /\ dataPos = SecondEntry.next

\* C16: with fixCompatibility on and flagInstrumentBased clear, when
\* module.channelPan[0] is 0x40 and a cell on channel 0 in the second row of a
\* pattern has no pan effect and no effect column, the XM writer emits that
\* cell with a synthesised effect 0x08 and operand 0x80.
\* Violated: the writer never reads channelPan; memory[channel].pan starts at
\* 0x80 in every pattern (line 615) and nothing is synthesised unless a pan
\* effect in an earlier row of the pattern changed it.
C16_PanSynthesised ==
    PanScenario =>
        /\ thisrow[1].effect = 8
        /\ thisrow[1].effectop = 128
        /\ BitAnd(thisrow[1].xmflag, 24) = 24

(***************************************************************************)
(* fstr (unkrawerter.cpp lines 1320-1329): the search main uses for the    *)
(* Krawall signature and the version date.                                 *)
(***************************************************************************)
\* "$Id: Krawall"
IdKrawall == <<36, 73, 100, 58, 32, 75, 114, 97, 119, 97, 108, 108>>

\* "$Date: "
DateTag == <<36, 68, 97, 116, 101, 58, 32>>

\* "$Id: version.h 8 "
VersionTag ==
    <<36, 73, 100, 58, 32, 118, 101, 114, 115, 105, 111, 110, 46, 104, 32, 56, 32>>

\* fstr after rewind(fp): ptr = str, nothing read
FstrStart == [ptr |-> 0, pos |-> 0, eof |-> FALSE, found |-> FALSE]

\* one round of the loop of lines 1323-1327: return true when ptr is at the
\* end of str, else read one character and advance ptr or reset it to str
FstrStep(r, str, st) ==
    IF st.found \/ st.eof THEN st
    ELSE IF st.ptr = Len(str) THEN [st EXCEPT !.found = TRUE]
    ELSE LET c == Fgetc(r, st.pos)
         IN  [ptr |-> IF c = str[st.ptr + 1] THEN st.ptr + 1 ELSE 0,
              pos |-> IF c = EOF THEN st.pos ELSE st.pos + 1,
              eof |-> c = EOF,
              found |-> FALSE]

\* n rounds of the loop, folded by halves
RECURSIVE FstrRounds(_, _, _, _)
FstrRounds(r, str, n, st) ==
    IF n = 0 \/ st.found \/ st.eof THEN st
    ELSE IF n = 1 THEN FstrStep(r, str, st)
    ELSE LET left == FstrRounds(r, str, n \div 2, st)
         IN  Then(left, FstrRounds(r, str, n - n \div 2, left))

\* fstr(fp, str): whether str was found, and the file position it leaves
Fstr(r, str) == FstrRounds(r, str, Len(r) + 2, FstrStart)

\* what an element of char tmp[11] holds when fread did not fill it
Indeterminate == {0, 48, 57}

\* fread(tmp, 10, 1, fp) at position p: the bytes the file has; the elements
\* of the uninitialised array it did not reach hold any value
DateChars(r, p) ==
    LET have == Max(0, Min(10, Len(r) - p))
    IN  {[j \in 1..10 |-> IF j <= have THEN r[p + j] ELSE u[j - have]] :
            u \in [1..(10 - have) -> Indeterminate]}

\* the low and the high half of the 32 bits of d << s
ShiftedLow(d, s) == IF s >= 16 THEN 0 ELSE (((d * Pow2(s)) % 65536) + 65536) % 65536

ShiftedHigh(d, s) ==
    IF s >= 16 THEN (((d * Pow2(s - 16)) % 65536) + 65536) % 65536
    ELSE ((((d * Pow2(s) - ShiftedLow(d, s)) \div 65536) % 65536) + 65536) % 65536

\* the shift of each of tmp[0], ..., tmp[9] at lines 1454 and 1463; tmp[4] and
\* tmp[7] are not used
DateShifts == <<28, 24, 20, 16, -1, 12, 8, -1, 4, 0>>

\* the bitwise or of the high or the low halves of (tmp[j] - '0') << shift
\* over the eight digits, from tmp[j]
RECURSIVE OrHalves(_, _, _)
OrHalves(t, j, high) ==
    IF j > 10 THEN 0
    ELSE IF DateShifts[j] < 0 THEN OrHalves(t, j + 1, high)
    ELSE LET d == SignedChar(t[j]) - 48
         IN  BitOr(IF high THEN ShiftedHigh(d, DateShifts[j])
                   ELSE ShiftedLow(d, DateShifts[j]),
                   OrHalves(t, j + 1, high))

\* a uint32_t given by its halves; the values from 2^31 up are held as the
\* negative numbers with the same 32 bits
FromHalves(hi, lo) == (IF hi >= 32768 THEN hi - 65536 ELSE hi) * 65536 + lo

\* lines 1454 and 1463: the digits of YYYY?MM?DD packed into one nibble each
PackDate(t) == FromHalves(OrHalves(t, 1, TRUE), OrHalves(t, 1, FALSE))

\* lines 1447-1467: the values version can have after the detection, and
\* whether the warning about the missing signature is printed
DetectVersion(r, ver) ==
    IF ~Fstr(r, IdKrawall).found THEN [versions |-> {ver}, warned |-> TRUE]
    ELSE LET date == Fstr(r, DateTag)
             vers == Fstr(r, VersionTag)
         IN  IF date.found
             THEN [versions |-> {PackDate(t) : t \in DateChars(r, date.pos)},
                   warned |-> FALSE]
             ELSE IF vers.found
             THEN [versions |-> {PackDate(t) : t \in DateChars(r, vers.pos)},
                   warned |-> FALSE]
             ELSE [versions |-> {ver}, warned |-> FALSE]

(***************************************************************************)
(* main (unkrawerter.cpp lines 1331-1542).  The options -t, -a and -c are  *)
(* the variables threshold, trimInstruments and fixCompatibility; the      *)
(* export of WAV files (-e) and the names of the output files are left     *)
(* out.  A module writer main calls is recorded in calls and returns one   *)
(* of the values the writers return.                                       *)
(***************************************************************************)
\* -k
KOptionVersion == 537069825

\* the return values of main
UsageCode == 1

NoRomCode == 4

CannotReadCode == 2

NoOffsetsCode == 3

\* the values unkrawerter_writeModuleToXM and unkrawerter_writeModuleToS3M
\* return, and Crashed for a call that does not return
WriterReturns == {0, 2, 3, 10, Crashed}

\* lines 1331-1446: usage, the options, the ROM path, fopen
MainStart ==
    /\ pc = "main"
    /\ LET code == IF args.help THEN UsageCode
                   ELSE IF args.badOption # 0 THEN args.badOption
                   ELSE IF ~args.romPath THEN NoRomCode
                   ELSE IF ~args.canRead THEN CannotReadCode
                   ELSE Running
       IN  /\ exitCode' = code
           /\ pc' = IF code = Running THEN "main_version" ELSE "exit"
           /\ version' = IF ~args.help /\ args.k THEN KOptionVersion ELSE version
           /\ stderrLog' =
                  IF code = Running THEN stderrLog
                  ELSE IF code = UsageCode THEN Append(stderrLog, "Usage")
                  ELSE IF code = NoRomCode
                  THEN Append(stderrLog, "Error: No ROM file specified.")
                  ELSE IF code = CannotReadCode
                  THEN Append(stderrLog, "Could not open file for reading.")
                  ELSE Append(stderrLog, "Error: Invalid argument")
    /\ UNCHANGED <<args, offsets, calls, scanVars, modVars, jobVars, out, outPos,
                   result, loopVars, xmVars, s3mVars, deltaVars>>

\* lines 1447-1467
MainVersion ==
    /\ pc = "main_version"
    /\ LET d == DetectVersion(rom, version)
       IN  /\ version' \in d.versions
           /\ stderrLog' =
                  IF d.warned
                  THEN Append(stderrLog, "Warning: Could not find Krawall signature.")
                  ELSE stderrLog
    /\ pc' = "scan"
    /\ UNCHANGED <<mainVars, scanVars, modVars, jobVars, out, outPos, result,
                   loopVars, xmVars, s3mVars, deltaVars>>

\* (tmp & 0xf6000000) == 0 && (tmp & 0x8000000) == 0x8000000
IsListed(tmp) == ~HasBadBits(tmp) /\ HasRomBit(tmp)

\* the count loops of lines 1477 and 1485 do not end
Diverges == -1

\* the loop of line 1477: tmp was read, p is the file position, n the count;
\* at end of file fread leaves tmp as it is
RECURSIVE CountFrom(_, _, _, _)
CountFrom(r, p, tmp, n) ==
    IF ~IsListed(tmp) THEN n
    ELSE IF p >= Len(r) THEN Diverges
    ELSE CountFrom(r, PosAfterRead(r, p, 4), Fread(r, p, 4, tmp), n + 1)

\* lines 1474-1477: the length of the pointer list at address addr
CountList(r, addr) ==
    CountFrom(r, PosAfterRead(r, addr, 4), Fread(r, addr, 4, 0), 0)

\* Success with either of the two
SuccessEither(o) == o.sampleAddr # 0 \/ o.modules # <<>>

\* line 1489
Success(o) == o.sampleAddr # 0 /\ o.modules # <<>>

\* lines 1472-1489: the search result with the overrides of -s, -i and -m
WithOverrides(r, res, a) ==
    LET s == IF a.sampleAddr # 0
             THEN [res EXCEPT !.sampleAddr = FileOffset(a.sampleAddr),
                              !.sampleCount = CountList(r, FileOffset(a.sampleAddr))]
             ELSE res
        i == IF a.instrumentAddr # 0
             THEN [s EXCEPT !.instrumentAddr = FileOffset(a.instrumentAddr),
                            !.instrumentCount =
                                CountList(r, FileOffset(a.instrumentAddr))]
             ELSE s
        m == [i EXCEPT !.modules = @ \o a.additionalModules]
    IN  [m EXCEPT !.success = Success(m)]

\* lines 1469-1494, after unkrawerter_searchForOffsets has returned
MainOffsets ==
    /\ pc = "searched"
    /\ LET o == WithOverrides(rom, retval, args)
       IN  IF o.sampleCount = Diverges \/ o.instrumentCount = Diverges
           THEN /\ pc' = "hang"
                /\ UNCHANGED <<offsets, exitCode, stderrLog>>
           ELSE /\ offsets' = o
                /\ IF ~o.success
                   THEN /\ stderrLog' = Append(stderrLog,
                               "Could not find all of the offsets required.")
                        /\ exitCode' = NoOffsetsCode
                        /\ pc' = "exit"
                   ELSE /\ pc' = "main_modules"
                        /\ UNCHANGED <<exitCode, stderrLog>>
    /\ UNCHANGED <<version, args, calls, scanVars, modVars, jobVars, out, outPos,
                   result, loopVars, xmVars, s3mVars, deltaVars>>

\* lines 1521-1533: whether module m is written as S3M
UseS3M(r, m, moduleType, ver) ==
    LET flag == Fgetc(r, m + 358)
        first == (flag = 0 /\ moduleType # 0) \/ moduleType = 1
        tmp == Fread(r, m + 364, 4, 0)
        q == FileOffset(tmp) + 32
        tmp16 == IF BelowCutoff(ver) THEN U16(Fgetc(r, q) + 65536)
                 ELSE Fread(r, q, 2, 0)
    IN  IF first /\ moduleType # 1 THEN tmp16 = 64 ELSE first

\* one round of the loop of lines 1519-1539: the writer is called and returns r
MainModule ==
    /\ pc = "main_modules"
    /\ Len(calls) < Len(offsets.modules)
    /\ LET m == offsets.modules[Len(calls) + 1]
       IN  calls' = Append(calls,
               [module |-> m, useS3M |-> UseS3M(rom, m, args.moduleType, version)])
    /\ \E r \in WriterReturns :
          IF r # 0 THEN exitCode' = r /\ pc' = "exit"
          ELSE UNCHANGED <<exitCode, pc>>
    /\ UNCHANGED <<version, args, offsets, scanVars, modVars, writerVars>>

\* lines 1540-1541
MainDone ==
    /\ pc = "main_modules"
    /\ ~(Len(calls) < Len(offsets.modules))
    /\ exitCode' = 0
    /\ pc' = "exit"
    /\ UNCHANGED <<version, args, offsets, calls, scanVars, modVars, writerVars>>

NextMain ==
    \/ MainStart \/ MainVersion
    \/ ScanStep \/ ScanDone \/ EraseStep \/ ClassifyStep \/ SelectStep
    \/ MainOffsets \/ MainModule \/ MainDone

(***************************************************************************)
(* The command lines and the ROMs main is run on.                          *)
(***************************************************************************)
\* unkrawerter rom.gba
DefaultRun == [NoArguments EXCEPT !.romPath = TRUE, !.canRead = TRUE]

\* the addresses given to -s and -i: none, a file offset, and 0x08000000
OverrideAddresses == {0, 4, 134217728}

\* runs that reach the ROM, with and without -k, -3, -x, -s, -i and -m
RunArgs ==
    {[DefaultRun EXCEPT !.k = k, !.moduleType = t, !.sampleAddr = s,
                        !.instrumentAddr = i, !.additionalModules = m] :
        k \in BOOLEAN, t \in {-1, 0, 1}, s \in OverrideAddresses, i \in {0, 4},
        m \in {<<>>, <<0>>}}

\* runs that end before the ROM is read: -h, a bad -n or -l, no ROM path, a
\* ROM that cannot be opened
EarlyExits ==
    {[NoArguments EXCEPT !.help = TRUE],
     [DefaultRun EXCEPT !.badOption = 7],
     [DefaultRun EXCEPT !.badOption = 8],
     [NoArguments EXCEPT !.k = TRUE],
     [NoArguments EXCEPT !.romPath = TRUE]}

\* the lengths of the ROMs of zero bytes
ZeroLengths == {0, 1, 4, 6, 16, 32}

ZeroRoms == {Zeros(n) : n \in ZeroLengths}

\* ROMs of dwords that have the ROM bit and fail the predicate of line 89:
\* 0x08080808, an address beyond the ROM, and 0x08080808 before three bytes
\* that do not make a dword
JunkRoms ==
    {Concat([i \in 1..3 |-> LE32(134744072)]),
     Concat([i \in 1..3 |-> LE32(Ptr(1000 + 16 * i))]),
     LE32(134744072) \o <<1, 0, 0>>}

\* "2004/07/07", "2003/10/01", "2005-04-21"
DateJuly == <<50, 48, 48, 52, 47, 48, 55, 47, 48, 55>>

DateOctober == <<50, 48, 48, 51, 47, 49, 48, 47, 48, 49>>

DateApril == <<50, 48, 48, 53, 45, 48, 52, 45, 50, 49>>

\* the pieces the ROMs with text are made of: "$", " ", the signature, the
\* tags with a date, and a date cut short by the end of the file
TextPieces ==
    {<<36>>, <<32>>, IdKrawall, DateTag \o DateJuly, DateTag \o DateOctober,
     VersionTag \o DateApril, DateTag \o SubSeq(DateJuly, 1, 9)}

\* the number of pieces of a ROM
MaxPieces == 3

TextRoms ==
    {Concat(q) : q \in UNION {SeqsOfLen(TextPieces, n) : n \in 0..MaxPieces}}

\* a ROM with a Module header at offset 0, two patterns and a sample list
ModuleRoms ==
    {LET b == Zeros(356) \o Block(356, "module", "pattern", 2)
     IN  b \o Block(Len(b), "none", "sample", n) : n \in {2}}

InitMain ==
    /\ pc = "main"
    /\ version = DefaultVersion
    /\ \/ rom \in ZeroRoms \cup JunkRoms /\ threshold \in {0, 4} /\ args \in RunArgs
       \/ rom \in TextRoms /\ threshold = 4 /\ args = DefaultRun
       \/ rom \in ModuleRoms /\ threshold = 2 /\ args \in RunArgs
       \/ rom \in ModuleRoms /\ threshold = 2 /\ args \in EarlyExits
    /\ fpos = 0
    /\ feofFlag = FALSE
    /\ lastDword = 0
    /\ startAddress = 0
    /\ count = 0
    /\ foundAddressLists = <<>>
    /\ retval = EmptyResult
    /\ offsets = EmptyResult
    /\ calls = <<>>
    /\ exitCode = Running
    /\ IdleMod
    /\ IdleWriter

SpecMain == InitMain /\ [][NextMain]_vars

(***************************************************************************)
(* Claims about main.                                                      *)
(***************************************************************************)
\* no complete dword of the ROM satisfies the predicate of line 89
NoPointerDword(r) ==
    \A k \in 0..((Len(r) \div 4) - 1) : ~IsPointer(Fread(r, 4 * k, 4, 0), Len(r))

\* the command line gave a ROM that was opened
RunsOnRom == ~args.help /\ args.badOption = 0 /\ args.romPath /\ args.canRead

\* unkrawerter_searchForOffsets has returned
Searched == pc \in {"searched", "main_modules", "hang", "exit"} /\ RunsOnRom

FoundNothing == retval.modules = <<>> /\ retval.sampleAddr = 0 /\ ~retval.success

\* both overrides that make line 1489 succeed
BothOverrides == FileOffset(args.sampleAddr) # 0 /\ args.additionalModules # <<>>

OccursAt(r, str, k) ==
    /\ k + Len(str) <= Len(r)
    /\ \A j \in 1..Len(str) : r[k + j] = str[j]

Occurs(r, str) == \E k \in 0..Len(r) : OccursAt(r, str, k)

\* the file offset after the first occurrence of str in r
AfterFirst(r, str) ==
    Len(str) + CHOOSE k \in 0..Len(r) :
        OccursAt(r, str, k) /\ \A h \in 0..(k - 1) : ~OccursAt(r, str, h)

IsDigit(c) == c >= 48 /\ c <= 57

\* r holds a date YYYY?MM?DD at file offset p
DateAt(r, p) ==
    /\ p + 10 <= Len(r)
    /\ \A j \in {1, 2, 3, 4, 6, 7, 9, 10} : IsDigit(r[p + j])

\* 0xYYYYMMDD of the date at file offset p
DateKey(r, p) ==
    (r[p + 1] - 48) * 268435456 + (r[p + 2] - 48) * 16777216
    + (r[p + 3] - 48) * 1048576 + (r[p + 4] - 48) * 65536
    + (r[p + 6] - 48) * 4096 + (r[p + 7] - 48) * 256
    + (r[p + 9] - 48) * 16 + (r[p + 10] - 48)

\* lines 1447-1467 have run
VersionDetected == RunsOnRom /\ pc \notin {"main", "main_version"}

\* C18: whenever the ROM contains the byte string "$Id: Krawall" anywhere
\* (also when it is directly preceded by a prefix of itself such as an extra
\* '$') and contains "$Date: " followed by a date YYYY/MM/DD, the linear
\* search finds both and sets the version key to the packed value 0xYYYYMMDD
\* of the date following the first "$Date: " occurrence.
\* Violated: fstr does not try again the character that ended a partial
\* match, so it misses "$Id: Krawall" after "$" and the first "$Date: "
\* after "$".
C18_VersionFromDate ==
    (/\ VersionDetected
     /\ Occurs(rom, IdKrawall)
     /\ Occurs(rom, DateTag)
     /\ DateAt(rom, AfterFirst(rom, DateTag)))
        => /\ version = DateKey(rom, AfterFirst(rom, DateTag))
           /\ MessageCount(stderrLog, "Warning: Could not find Krawall signature.") = 0

(***************************************************************************)
(* The parapointers of the S3M file (lines 1162-1188 and 1208-1217)        *)
(* against the places the blocks are written at.                           *)
(***************************************************************************)
\* the entries of a row of a long pattern
RowFill == 48

\* the number of patterns of the longest module: their blocks go beyond the
\* file offset 65535
LongS3mPatterns == 22

\* a pattern of 64 rows of RowFill one-byte entries, as readPatternFile
\* returns it
FilledPattern ==
    [rows |-> 64, s3mlength |-> 64 * (RowFill + 1), length |-> 64 * (RowFill + 1),
     rowFill |-> RowFill, hang |-> FALSE]

\* modules of n such patterns, one order
FilledModules ==
    {ModuleOf(2, <<n - 1>>, 0, 0, 6, [k \in 1..n |-> FilledPattern]) :
        n \in {1, 2, LongS3mPatterns}}

InitFilled ==
    /\ pc = "s3m"
    /\ version = DefaultVersion
    /\ IdleScan
    /\ IdleMain
    /\ IdleMod
    /\ mod \in FilledModules
    /\ samples = SmallSamples
    /\ instruments = <<>>
    /\ trimInstruments \in BOOLEAN
    /\ fixCompatibility = FALSE
    /\ name = <<>>
    /\ canOpen = TRUE
    /\ IdleFile
    /\ IdleLoops
    /\ IdleXM
    /\ IdleS3M
    /\ IdleDelta

InitPara == InitS3M \/ InitFilled

SpecPara == InitPara /\ [][NextS3M]_vars

\* the blocks of one kind, in the order they were written
BlocksOf(kind) == SelectSeq(blockStarts, LAMBDA b : b.kind = kind)

\* the parapointer stored for the instrument i and for the pattern j (counted
\* from 0) in the tables after the orders
StoredInstrumentPointer(i) == U16At(out, 96 + mod.numOrders + 2 * i)

StoredPatternPointer(j) ==
    U16At(out, 96 + mod.numOrders + 2 * S3mInstrumentCount(instrumentMap) + 2 * j)

\* the memory segment stored in the instrument header at h: the high byte,
\* then the low two bytes
StoredMemSeg(h) ==
    ByteAt(out, h + 13) * 65536 + ByteAt(out, h + 14) + ByteAt(out, h + 15) * 256

\* C19: in every successfully written S3M file, each instrument parapointer,
\* each pattern parapointer and each sample memory-segment value stored in
\* the file, multiplied by 16, equals the file offset at which the
\* corresponding instrument header, pattern block or sample body actually
\* begins (including files larger than 65535 bytes).
\* Violated for a pattern block that begins at or beyond 65536: tmp is a
\* uint16_t and holds the byte offset before it is shifted.
C19_ParaPointers ==
    (pc = "done" /\ result = 0) =>
        /\ \A i \in 1..Len(BlocksOf("instrument")) :
              /\ StoredInstrumentPointer(i - 1) * 16 = BlocksOf("instrument")[i].pos
              /\ StoredMemSeg(BlocksOf("instrument")[i].pos) * 16
                     = BlocksOf("sample")[i].pos
        /\ \A j \in 1..Len(BlocksOf("pattern")) :
              StoredPatternPointer(j - 1) * 16 = BlocksOf("pattern")[j].pos

\* C19 for the files that end at or below 65536
C19_ParaPointersSmallFiles ==
    (pc = "done" /\ result = 0 /\ out.len <= 65536) =>
        /\ \A i \in 1..Len(BlocksOf("instrument")) :
              /\ StoredInstrumentPointer(i - 1) * 16 = BlocksOf("instrument")[i].pos
              /\ StoredMemSeg(BlocksOf("instrument")[i].pos) * 16
                     = BlocksOf("sample")[i].pos
        /\ \A j \in 1..Len(BlocksOf("pattern")) :
              StoredPatternPointer(j - 1) * 16 = BlocksOf("pattern")[j].pos

(***************************************************************************)
(* The back-patches of the XM writer (lines 864-877 and 971-981) against   *)
(* what was written before them.                                           *)
(***************************************************************************)
\* the first n bytes of the runs from the run k on
RECURSIVE TakeRuns(_, _, _)
TakeRuns(runs, k, n) ==
    IF n <= 0 \/ k > Len(runs) THEN <<>>
    ELSE IF runs[k][2] <= n
    THEN <<runs[k]>> \o TakeRuns(runs, k + 1, n - runs[k][2])
    ELSE <<<<runs[k][1], n>>>>

\* the first n bytes of the file f
Prefix(f, n) == IF n >= f.len THEN f ELSE [len |-> n, runs |-> TakeRuns(f.runs, 1, n)]

\* the file f with the two bytes at each of the positions ps[k].. as they
\* are in the file before
RECURSIVE Restored(_, _, _, _)
Restored(f, before, ps, k) ==
    IF k > Len(ps) THEN f
    ELSE Restored(WriteAt(f, ps[k], <<ByteAt(before, ps[k]), ByteAt(before, ps[k] + 1)>>),
                  before, ps, k + 1)

\* the step changes nothing of what was written but the two bytes at each
\* of the positions ps, all of them below the end of the output, and leaves
\* the position at the end of the output
PatchesOnly(ps) ==
    /\ \A k \in 1..Len(ps) : ps[k] >= 0 /\ ps[k] + 2 <= out.len
    /\ out'.len >= out.len
    /\ Restored(Prefix(out', out.len), out, ps, 1) = out
    /\ outPos' = out'.len

\* the positions recorded with the offset effects
RecordedOffsets == [k \in 1..Len(sampleOffsetList) |-> sampleOffsetList[k].pos]

\* a step of lines 864-869, of lines 872-877, of the instrument loop
PatternSizeStep == pc = "xm_row" /\ pc' = "xm_pattern"

TrimmedCountStep == pc = "xm_pattern" /\ pc' = "xm_instrument" /\ trimInstruments

InstrumentsStep == pc = "xm_instrument" /\ iidx' # iidx

\* C20: each back-patch of the XM writer (pattern body size, trimmed
\* instrument count, sample-offset zeroing) overwrites only bytes at a
\* previously recorded offset that lies entirely below the current end of
\* the output, leaves every other already-written byte unchanged, and
\* afterwards restores the write position to exactly the position it had
\* before the back-patch, so subsequent sequential writes never overlap
\* earlier output.
C20_SeekDiscipline ==
    [][/\ outPos = out.len
       /\ PatternSizeStep =>
              /\ PatchesOnly(<<sizePos>>)
              /\ out'.len = out.len
              /\ outPos' = outPos
       /\ TrimmedCountStep =>
              /\ PatchesOnly(<<instrumentSizePos>>)
              /\ out'.len = out.len
              /\ outPos' = outPos
       /\ InstrumentsStep => PatchesOnly(RecordedOffsets)
       /\ ~(PatternSizeStep \/ TrimmedCountStep \/ InstrumentsStep) =>
              PatchesOnly(<<>>)]_vars

\* a written file with all three back-patches in it: the size of the
\* pattern, the number of the instruments used and a zeroed offset effect
C20_Witness ==
    /\ pc = "done"
    /\ result = 0
    /\ trimInstruments
    /\ fixCompatibility
    /\ patternSizes # <<>>
    /\ U16At(out, patternSizes[1].sizePos)
           = patternSizes[1].endPos - patternSizes[1].sizePos - 2
    /\ U16At(out, patternSizes[1].sizePos) > 0
    /\ U16At(out, instrumentSizePos) = Len(instrumentList)
    /\ instrumentList # <<>>
    /\ \E k \in 1..Len(sampleOffsetList) :
           /\ sampleOffsetList[k].effectop # 0
           /\ U16At(out, sampleOffsetList[k].pos) = 0
    /\ outPos = out.len

(***************************************************************************)
(* The portamento fix of lines 740-783 on one row: the slide of channel 0  *)
(* after up to two speed effects on channel 1.                             *)
(***************************************************************************)
\* the speed effects: line 731 takes the operand of the effects 1 and 3 as
\* the speed, line 723 drops the effect 1 of operand 0 before
SlideSpeedEntries ==
    {EffectEntry(1, e[1], e[2]) : e \in {<<1, 0>>, <<1, 3>>, <<3, 0>>, <<3, 2>>}}

\* the speed effects before the slide: none, one, two
SlideSpeedSeqs ==
    {<<>>} \cup {<<a>> : a \in SlideSpeedEntries}
           \cup {<<a, b>> : a \in {EffectEntry(1, 1, 3), EffectEntry(1, 3, 0)},
                            b \in SlideSpeedEntries}

\* the Krawall effects and operands of the slide: the six portamento forms
\* of effectMap_xm (10 and 14 normal, 12 and 16 fine, 13 and 17 extra fine),
\* the S3M portamentos 11 and 15, and a volume effect
SlideEffects ==
    {<<10, 0>>, <<10, 1>>, <<10, 2>>, <<10, 5>>, <<10, 10>>, <<10, 255>>,
     <<12, 4>>, <<12, 15>>, <<13, 4>>, <<13, 15>>,
     <<14, 2>>, <<16, 4>>, <<17, 4>>, <<17, 15>>,
     <<11, 243>>, <<15, 232>>, <<18, 64>>}

\* with a note that restarts the tracked pitch at 16 or 48, or without a note
SlideEntries ==
    {NoteEffectEntry(0, n # 0, n, 1, e[1], e[2]) : n \in {0, 1, 3}, e \in SlideEffects}

SlideInitSpeeds == {0, 6}

SlideModules(legacy) ==
    {ModuleOf(2, <<0>>, 0, 0, spd, <<PatternOf(before \o <<slide>>, legacy)>>) :
        spd \in SlideInitSpeeds, before \in SlideSpeedSeqs, slide \in SlideEntries}

InitSlide == InitXMWith(SlideModules)

SpecSlide == InitSlide /\ [][NextXM]_vars

\* the entry the next step of the row loop converts
CurrentEntry == DecodeEntry(mod.patterns[pidx + 1].data, dataPos, Legacy)

\* a step of lines 623-817 that stores the cell of an entry, with the
\* portamento fix on
FixedEntryStep ==
    /\ pc = "xm_row"
    /\ pc' = "xm_row"
    /\ row' = row
    /\ dataPos' # dataPos
    /\ CurrentEntry.channel < mod.channels
    /\ fixCompatibility
    /\ mod.flagAmigaLimits = 0

\* the tracked value the fix works on: line 746 restarts it at a new note
TrackedPorta ==
    IF BringsNote(CurrentEntry) THEN CurrentEntry.note * 16
    ELSE memory[CurrentEntry.channel + 1].porta

\* the effect and operand of the entry as lines 650-736 emit them, before
\* the fix
EmittedEffect ==
    ConvertedCell(CurrentEntry, memory[CurrentEntry.channel + 1].s3m, speed,
                  warnings).cell

\* C21: when a normal portamento down (XM 0x02, operand op, current speed s)
\* would take a channel's tracked porta value p > 0 to zero or below
\* (p - op*s <= 0), the writer replaces the operand by one whose slide op'*s
\* lands at zero, i.e. op'*s <= p and p - op'*s < s, never a value that still
\* overshoots p; when p is already <= 0 the cell is replaced by a note cut
\* (note 97).
\* Violated: line 766 stores (op*s - p) / s, the part of the slide beyond
\* zero, not the part down to zero.
C21_PortaLandsAtZero ==
    [][(FixedEntryStep /\ EmittedEffect.effect = 2) =>
          LET p    == TrackedPorta
              op   == EmittedEffect.effectop
              s    == speed'
              cell == thisrow'[CurrentEntry.channel + 1]
          IN  /\ (p > 0 /\ p - op * s <= 0) =>
                     /\ cell.effect = 2
                     /\ cell.effectop * s <= p
                     /\ p - cell.effectop * s < s
              /\ p <= 0 => IsNoteCut(cell)]_vars

\* what the six portamento forms add to the tracked value at the speed s
PortaShift(effect, op, s) ==
    IF effect = 1 THEN op * s
    ELSE IF effect = 2 THEN 0 - op * s
    ELSE IF effect = 14 /\ HiNibble(op) = 16 THEN LoNibble(op)
    ELSE IF effect = 14 /\ HiNibble(op) = 32 THEN 0 - LoNibble(op)
    ELSE IF effect = 33 /\ HiNibble(op) = 16 THEN LoNibble(op) \div 4
    ELSE IF effect = 33 /\ HiNibble(op) = 32 THEN 0 - (LoNibble(op) \div 4)
    ELSE 0

\* C22: porta tracking covers all six emitted effect forms: with the fix-up
\* active and tracked value p > 0, XM 0x01 adds op*speed, 0x02 subtracts
\* op*speed, 0x0E1x adds (op & 0xF), 0x0E2x subtracts (op & 0xF), 0x211x adds
\* ((op & 0xF) >> 2) and 0x212x subtracts ((op & 0xF) >> 2) to/from the
\* channel's tracked porta value; any other effect leaves the tracked value
\* unchanged.
\* Violated: line 758 tests (effectop & 0x0F) == 0x10, which no operand
\* satisfies, so 0x211x is not tracked.
C22_PortaTracking ==
    [][(FixedEntryStep /\ TrackedPorta > 0) =>
          memory'[CurrentEntry.channel + 1].porta
              = TrackedPorta + PortaShift(EmittedEffect.effect,
                                          EmittedEffect.effectop, speed')]_vars

\* C22 without the form 0x211x
C22_PortaTrackingOtherForms ==
    [][(FixedEntryStep /\ TrackedPorta > 0
            /\ ~(EmittedEffect.effect = 33 /\ HiNibble(EmittedEffect.effectop) = 16)) =>
          memory'[CurrentEntry.channel + 1].porta
              = TrackedPorta + PortaShift(EmittedEffect.effect,
                                          EmittedEffect.effectop, speed')]_vars

\* the speed after lines 650-736 have converted the entry: line 731
SpeedAfterEntry ==
    ConvertedCell(CurrentEntry, memory[CurrentEntry.channel + 1].s3m, speed,
                  warnings).speed

\* the next entry reaches the division of line 766: it is stored (line 739),
\* the fix is on (lines 740, 744), the effect is 0x02 (line 765), d <= 0
\* (line 762) and memory[channel].porta > 0 (line 763)
ReachesDivision ==
    /\ pc = "xm_row"
    /\ row < mod.patterns[pidx + 1].rows
    /\ mod.patterns[pidx + 1].data[dataPos + 1] # 0
    /\ CurrentEntry.channel < mod.channels
    /\ fixCompatibility
    /\ mod.flagAmigaLimits = 0
    /\ EmittedEffect.effect = 2
    /\ PortaTarget(EmittedEffect.effect, EmittedEffect.effectop, TrackedPorta,
                   SpeedAfterEntry) <= 0
    /\ TrackedPorta > 0

\* C25: the portamento shortening step of the XM writer never divides by
\* zero: for every initSpeed (including 0) and every sequence of
\* speed-changing effects 1 and 3 (including operand 0), the division by the
\* tracked speed is only reached in states where the tracked speed is
\* non-zero.
C25_NoDivisionByZero == ReachesDivision => SpeedAfterEntry # 0

\* the division is reached at the speed 3 an effect 1 has set, in a module
\* whose initSpeed is 0
C25_Witness ==
    /\ ReachesDivision
    /\ mod.initSpeed = 0
    /\ speed = 3
    /\ SpeedAfterEntry = 3
    /\ EmittedEffect.effectop = 10
    /\ TrackedPorta = 16

(***************************************************************************)
(* The instrument list of the XM writer (lines 597, 823-851, 871-882)      *)
(* over two patterns whose notes share instruments, and over the modules   *)
(* of 253 to 256 instruments.                                              *)
(***************************************************************************)
\* two patterns of one row each: notes with the instruments a and b on the
\* channels 0 and 1 of the first, c and d of the second (0: no instrument)
RemapModule(a, b, c, d, ib, legacy) ==
    ModuleOf(2, <<0, 1>>, ib, 0, 6,
             <<PatternOf(<<NoteEntry(0, 49, a), NoteEntry(1, 50, b)>>, legacy),
               PatternOf(<<NoteEntry(0, 51, c), NoteEntry(1, 52, d)>>, legacy)>>)

RemapNumbers == 0..3

RemapModules(legacy) ==
    {RemapModule(a, b, c, d, ib, legacy) :
        a \in RemapNumbers, b \in RemapNumbers, c \in RemapNumbers,
        d \in RemapNumbers, ib \in {0, 1}}

RemapSamples == SmallSamples \o <<SampleOf(<<5>>, 0)>>

RemapInstruments == SmallInstruments \o <<InstrumentOf(2, 2, 96)>>

InitRemap ==
    \/ /\ pc = "xm"
       /\ version \in Versions
       /\ IdleScan
       /\ IdleMain
       /\ IdleMod
       /\ mod \in RemapModules(version < VersionCutoff)
       /\ samples = RemapSamples
       /\ instruments = RemapInstruments
       /\ trimInstruments \in BOOLEAN
       /\ fixCompatibility \in BOOLEAN
       /\ name = <<>>
       /\ canOpen = TRUE
       /\ IdleFile
       /\ IdleLoops
       /\ IdleXM
       /\ IdleS3M
       /\ IdleDelta
    \/ /\ InitTrim
       /\ pc = "xm"

SpecRemap == InitRemap /\ [][NextXM]_vars

\* the bytes lines 821-858 write for the cell c: the flags and one byte for
\* each of the five fields the flags announce, or 0x80 alone
CellSize(c) ==
    IF c.xmflag = 0 THEN 1
    ELSE 1 + Cardinality({b \in {1, 2, 4, 8, 16} : BitAnd(c.xmflag, b) # 0})

RECURSIVE CellsSize(_, _)
CellsSize(cells, n) == IF n = 0 THEN 0 ELSE CellsSize(cells, n - 1) + CellSize(cells[n])

\* where the instrument byte of the cell j of the row goes
InstrumentBytePos(j) ==
    outPos + CellsSize(thisrow, j - 1) + 1
    + (IF BitAnd(thisrow[j].xmflag, 1) # 0 THEN 1 ELSE 0)

\* the cell has an instrument to convert: lines 823-826
HasSourceInstrument(c) == BitAnd(c.xmflag, 2) # 0 /\ c.instrument # 0

\* the row loop is at the end of a row: line 624
RowFlushStep ==
    /\ pc = "xm_row"
    /\ row < mod.patterns[pidx + 1].rows
    /\ mod.patterns[pidx + 1].data[dataPos + 1] = 0

IsPrefix(s, t) == Len(s) <= Len(t) /\ \A k \in 1..Len(s) : s[k] = t[k]

NoDuplicates(s) == Cardinality({s[k] : k \in 1..Len(s)}) = Len(s)

\* the bytes of the runs lo..hi
RECURSIVE ExpandRuns(_, _, _)
ExpandRuns(runs, lo, hi) ==
    IF lo > hi THEN <<>>
    ELSE IF lo = hi THEN [k \in 1..runs[lo][2] |-> runs[lo][1]]
    ELSE LET mid == (lo + hi) \div 2
         IN  ExpandRuns(runs, lo, mid) \o ExpandRuns(runs, mid + 1, hi)

\* the bytes of the file f, one by one
FileBytes(f) == ExpandRuns(f.runs, 1, Len(f.runs))

\* the 16-bit and the 32-bit little-endian value at position p of the bytes b
U16In(b, p) == b[p + 1] + 256 * b[p + 2]

U32In(b, p) == U16In(b, p) + 65536 * U16In(b, p + 2)

\* the sizes of the n samples whose headers begin at p
RECURSIVE SampleSizes(_, _, _)
SampleSizes(b, p, n) ==
    IF n = 0 THEN 0 ELSE U32In(b, p) + SampleSizes(b, p + 40, n - 1)

\* the length of the instrument record at p: the header, the 40-byte header
\* of each of its samples, the sample data
RecordLength(b, p) ==
    U32In(b, p) + 40 * U16In(b, p + 27)
    + SampleSizes(b, p + U32In(b, p), U16In(b, p + 27))

\* the position and the count after up to n more instrument records of the
\* bytes b
RECURSIVE WalkRecords(_, _, _)
WalkRecords(b, st, n) ==
    IF n = 0 \/ st.pos >= Len(b) THEN st
    ELSE IF n = 1
    THEN [pos |-> st.pos + RecordLength(b, st.pos), count |-> st.count + 1]
    ELSE LET half == WalkRecords(b, st, n \div 2)
         IN  Then(half, WalkRecords(b, half, n - n \div 2))

\* the instrument records from p to the end of the file f, which ends with
\* the last of them
CountRecords(f, p) ==
    LET b   == FileBytes(f)
        end == WalkRecords(b, [pos |-> p, count |-> 0], Len(b))
    IN  IF end.pos = Len(b) THEN end.count ELSE -1

\* where the patterns end
PatternsEnd ==
    IF patternSizes = <<>> THEN Len(XmTitle) + Len(XmSongHeader(0))
    ELSE patternSizes[Len(patternSizes)].endPos

\* the last n bytes of the runs 1..k
RECURSIVE TailBytes(_, _, _)
TailBytes(runs, k, n) ==
    IF n <= 0 \/ k = 0 THEN <<>>
    ELSE IF runs[k][2] >= n THEN [i \in 1..n |-> runs[k][1]]
    ELSE TailBytes(runs, k - 1, n - runs[k][2])
         \o [i \in 1..runs[k][2] |-> runs[k][1]]

\* the bytes the step has written at the end of the file
WrittenBytes == TailBytes(out'.runs, Len(out'.runs), out'.len - outPos)

\* C23: instrument trimming in the XM writer: across all patterns of a
\* module the trimmed instrument list is append-only and contains no
\* duplicates, the number emitted for a source instrument n is the 1-based
\* position of n-1 in that list and is identical at every occurrence of n,
\* every emitted number lies in 1..254, and the instrument count back-patched
\* into the header equals the final list length, which equals the number of
\* instrument records written after the patterns.
C23_InstrumentTrimming ==
    [][trimInstruments =>
          /\ IsPrefix(instrumentList, instrumentList')
          /\ NoDuplicates(instrumentList')
          /\ RowFlushStep =>
                \A j \in 1..mod.channels :
                    (HasSourceInstrument(thisrow[j])
                        /\ InstrumentBytePos(j) < out'.len) =>
                       LET v == WrittenBytes[InstrumentBytePos(j) - outPos + 1]
                       IN  /\ v \in 1..254
                           /\ v <= Len(instrumentList')
                           /\ instrumentList'[v] = thisrow[j].instrument - 1
          /\ (pc = "xm_instrument" /\ pc' = "done" /\ result' = 0) =>
                /\ U16At(out, instrumentSizePos) = Len(instrumentList)
                /\ CountRecords(out, PatternsEnd) = Len(instrumentList)
                /\ out' = out
                /\ instrumentList' = instrumentList]_vars

\* the instruments 3 and 1 of the first pattern come again in the second,
\* in the other order: the list holds each once
C23_Witness ==
    /\ pc = "done"
    /\ result = 0
    /\ trimInstruments
    /\ mod \in {RemapModule(3, 1, 1, 3, ib, Legacy) : ib \in {0, 1}}
    /\ instrumentList = <<2, 0>>
    /\ U16At(out, instrumentSizePos) = 2

(***************************************************************************)
(* The candidate filter on pointer lists in any order, and on a run of 64  *)
(* equal pointers (unkrawerter.cpp lines 104-113).                         *)
(***************************************************************************)
RunLength == 64

\* RunLength dwords 0x08000000
EqualRun == Concat([i \in 1..RunLength |-> LE32(Ptr(0))])

\* the run at offset 0 or 4, reaching the end of the ROM or followed by a
\* zero dword, or by a zero dword and a module with its sample list
RunRoms ==
    {pre \o EqualRun \o post :
        pre \in {<<>>, LE32(0)},
        post \in {<<>>, LE32(0)}}
    \cup {LET head == pre \o EqualRun \o LE32(0)
              b == Block(Len(head), "module", "pattern", 2)
          IN  head \o b \o Block(Len(head) + Len(b), "none", "sample", 2) :
              pre \in {<<>>, LE32(0)}}

\* pointers 16 bytes apart, so that lists rise and fall by 0x10
SpreadDwords == {Ptr(0), Ptr(16), 0}

SpreadRoms ==
    {Concat([i \in 1..Len(q) |-> LE32(q[i])]) :
        q \in SeqsOfLen(SpreadDwords, MaxRomDwords)}

InitErase ==
    /\ pc = "scan"
    /\ version \in Versions
    /\ IdleMain
    /\ \/ rom \in SpreadRoms /\ threshold \in 2..3
       \/ rom \in RunRoms /\ threshold \in {2, 4}
    /\ fpos = 0
    /\ feofFlag = FALSE
    /\ lastDword = 0
    /\ startAddress = 0
    /\ count = 0
    /\ foundAddressLists = <<>>
    /\ retval = EmptyResult
    /\ IdleMod
    /\ IdleWriter

SpecErase == InitErase /\ [][NextScan]_vars

Distance(a, b) == IF a < b THEN b - a ELSE a - b

\* some consecutive pair of the first min(count, 4) values of the list lies
\* less than 0x10 apart
CloselyPacked(r, cand) ==
    \E i \in 1..(Min(cand.count, 4) - 1) :
        Distance(ListDword(r, cand.start, i), ListDword(r, cand.start, i - 1)) < 16

\* the candidate is absent from the list after the step
Dropped(cand) ==
    \A k \in 1..Len(foundAddressLists') : foundAddressLists'[k] # cand

\* RunLength dwords 0x08000000 lie at offset o of the ROM
HasRun(r, o) ==
    /\ Len(r) >= o + 4 * RunLength
    /\ \A i \in 0..(RunLength - 1) : Fread(r, o + 4 * i, 4, 0) = Ptr(0)

InRun(o, a) == a >= o /\ a < o + 4 * RunLength

\* no list of the result starts in the run at offset o (an address of 0 is
\* no list, lines 191-192 and 198)
NothingFromRun(res, o) ==
    /\ res.sampleAddr = 0 \/ ~InRun(o, res.sampleAddr)
    /\ res.instrumentAddr = 0 \/ ~InRun(o, res.instrumentAddr)
    /\ \A k \in 1..Len(res.modules) : ~InRun(o, res.modules[k] + 364)

\* C24: the filter drops a candidate exactly when some consecutive pair of
\* its first min(count, 4) pointer values differs by less than 0x10, and a
\* run of 64 dwords 0x08000000 contributes no module, sample list or
\* instrument list to the result.
C24_PostFilter ==
    [][/\ pc = "erase" =>
            \A k \in 1..Len(foundAddressLists) :
                Dropped(foundAddressLists[k])
                    <=> CloselyPacked(rom, foundAddressLists[k])
       /\ pc = "select" =>
            \A o \in {0, 4} : HasRun(rom, o) => NothingFromRun(retval', o)]_vars

\* what the filter does: a candidate is dropped exactly when some value of
\* its first min(count, 4) is less than 0x10 above the one before it, which
\* every pair that does not rise is
C24_DropsUnlessRising ==
    [][pc = "erase" =>
          \A k \in 1..Len(foundAddressLists) :
              Dropped(foundAddressLists[k])
                  <=> \E i \in 1..(Min(foundAddressLists[k].count, 4) - 1) :
                          ListDword(rom, foundAddressLists[k].start, i)
                              < ListDword(rom, foundAddressLists[k].start, i - 1) + 16]_vars

\* the run of 64 equal pointers never reaches the result
C24_RunDiscarded ==
    [][pc = "select" =>
          \A o \in {0, 4} : HasRun(rom, o) => NothingFromRun(retval', o)]_vars

\* a run of 64 equal pointers was a candidate and the filter removed it,
\* while the module and the sample list behind it were found
C24_RunWitness ==
    /\ pc = "searched"
    /\ HasRun(rom, 4)
    /\ retval.success
    /\ Len(retval.modules) = 1

(***************************************************************************)
(* Selection among several lists of each type, one of them at the start of *)
(* the ROM (unkrawerter.cpp lines 183-199).                                *)
(***************************************************************************)
\* a ROM of up to three parts: a list of one sample pointer at offset lead,
\* an optional module, and sample lists of n1 and n2 pointers (0: no list);
\* the sample of the first list lies behind them, and zeros fill the ROM up
\* to the length of an Instrument behind it
SelectRom(lead, hdr, n1, n2) ==
    LET head == Zeros(lead) \o Zeros(8)
        b0 == IF hdr = "module" THEN Block(Len(head), "module", "pattern", 2)
              ELSE <<>>
        b1 == IF n1 > 0 THEN Block(Len(head) + Len(b0), "none", "sample", n1)
              ELSE <<>>
        b2 == IF n2 > 0
              THEN Block(Len(head) + Len(b0) + Len(b1), "none", "sample", n2)
              ELSE <<>>
        body == head \o b0 \o b1 \o b2
        first == LE32(Ptr(Len(body)))
    IN  [i \in 1..Len(body) |->
            IF i > lead /\ i <= lead + 4 THEN first[i - lead] ELSE body[i]]
        \o SampleImage(Len(body)) \o Zeros(296)

SelectRoms ==
    {SelectRom(lead, hdr, n1, n2) :
        lead \in {0, 4}, hdr \in {"module", "none"},
        n1 \in 0..MaxPtrs, n2 \in 0..MaxPtrs}

InitSelect ==
    /\ pc = "scan"
    /\ version \in Versions
    /\ IdleMain
    /\ rom \in SelectRoms
    /\ threshold \in 1..2
    /\ fpos = 0
    /\ feofFlag = FALSE
    /\ lastDword = 0
    /\ startAddress = 0
    /\ count = 0
    /\ foundAddressLists = <<>>
    /\ retval = EmptyResult
    /\ IdleMod
    /\ IdleWriter

SpecSelect == InitSelect /\ [][NextScan]_vars

\* the candidates of one type, in the order found
OfType(lists, t) == SelectSeq(lists, LAMBDA c : c.mask = t)

\* the earliest candidate among those of the greatest count
Greatest(lists) ==
    lists[CHOOSE k \in 1..Len(lists) :
            /\ \A j \in 1..Len(lists) : lists[j].count <= lists[k].count
            /\ \A j \in 1..(k - 1) : lists[j].count < lists[k].count]

\* the module offsets are the starts of the module-only candidates less 364
ModulesSelected(lists, res) ==
    res.modules = [k \in 1..Len(OfType(lists, 1)) |-> OfType(lists, 1)[k].start - 364]

\* the sample list is the greatest sample-only candidate, if there is one
SampleSelected(lists, res) ==
    IF OfType(lists, 2) = <<>> THEN res.sampleAddr = 0 /\ res.sampleCount = 0
    ELSE /\ res.sampleAddr = Greatest(OfType(lists, 2)).start
         /\ res.sampleCount = Greatest(OfType(lists, 2)).count

InstrumentSelected(lists, res) ==
    IF OfType(lists, 4) = <<>>
    THEN res.instrumentAddr = 0 /\ res.instrumentCount = 0
    ELSE /\ res.instrumentAddr = Greatest(OfType(lists, 4)).start
         /\ res.instrumentCount = Greatest(OfType(lists, 4)).count

\* C26: every module-only candidate yields the module offset start - 364,
\* the sample list and the instrument list chosen are the earliest
\* candidates of the greatest count of their type, and success is true
\* exactly when a sample list and at least one module were found.
C26_Selection ==
    [][pc = "select" =>
          /\ ModulesSelected(foundAddressLists, retval')
          /\ SampleSelected(foundAddressLists, retval')
          /\ InstrumentSelected(foundAddressLists, retval')
          /\ retval'.success <=> (/\ OfType(foundAddressLists, 2) # <<>>
                                  /\ OfType(foundAddressLists, 1) # <<>>)]_vars

\* the choice of the lists alone
C26_Choice ==
    [][pc = "select" =>
          /\ ModulesSelected(foundAddressLists, retval')
          /\ SampleSelected(foundAddressLists, retval')
          /\ InstrumentSelected(foundAddressLists, retval')]_vars

\* success as line 198 computes it: the address of the sample list is not 0
C26_SuccessNeedsAddress ==
    [][pc = "select" =>
          (retval'.success <=> (/\ OfType(foundAddressLists, 2) # <<>>
                                /\ Greatest(OfType(foundAddressLists, 2)).start # 0
                                /\ OfType(foundAddressLists, 1) # <<>>))]_vars

\* two sample lists of the same count were found with a module, and the
\* earlier one was chosen
C26_TieWitness ==
    /\ pc = "searched"
    /\ retval.success
    /\ Len(OfType(foundAddressLists, 2)) >= 2
    /\ \E k \in 2..Len(OfType(foundAddressLists, 2)) :
          /\ OfType(foundAddressLists, 2)[k].count = retval.sampleCount
          /\ OfType(foundAddressLists, 2)[k].start > retval.sampleAddr

(***************************************************************************)
(* The table translation of lines 651-736 on every effect code, with and   *)
(* without the fixes of lines 740-809.                                     *)
(***************************************************************************)
TableEffects == 0..50

\* operands of every shape of the two nibbles
TableOperands == {0, 3, 15, 16, 64, 131, 255}

\* the effect alone, or with the note 49 of instrument 1
TableEntries ==
    {NoteEffectEntry(0, n # 0, n, 1, eff, op) :
        n \in {0, 49}, eff \in TableEffects, op \in TableOperands}

TableModules(legacy) ==
    {ModuleOf(1, <<0>>, ib, amiga, 6, <<PatternOf(<<e>>, legacy)>>) :
        ib \in {0, 1}, amiga \in {0, 1}, e \in TableEntries}

InitTable ==
    /\ pc = "xm"
    /\ version \in Versions
    /\ IdleScan
    /\ IdleMain
    /\ IdleMod
    /\ mod \in TableModules(version < VersionCutoff)
    /\ samples = SmallSamples
    /\ instruments = SmallInstruments
    /\ trimInstruments = FALSE
    /\ fixCompatibility \in BOOLEAN
    /\ name = <<>>
    /\ canOpen = TRUE
    /\ IdleFile
    /\ IdleLoops
    /\ IdleXM
    /\ IdleS3M
    /\ IdleDelta

SpecTable == InitTable /\ [][NextXM]_vars

\* a step of lines 623-817 that stores the cell of an entry
EntryStep ==
    /\ pc = "xm_row"
    /\ pc' = "xm_row"
    /\ row' = row
    /\ dataPos' # dataPos
    /\ CurrentEntry.channel < mod.channels

\* the effects the writer drops: those without an XM form, and the speed 0
\* or beyond 0x1F
EffectDropped(eff, op) ==
    \/ EffectMapXM[eff + 1][1] = 65535
    \/ eff = 1 /\ (op >= 32 \/ op = 0)

\* the S3M volume slides and portamentos, converted by their own rules
SpecialCase(eff) == eff \in {6, 11, 15, 23, 24}

\* the entry carries an effect the table alone translates
TableTranslated(e) ==
    /\ e.hasEff
    /\ e.effect \in TableEffects
    /\ ~EffectDropped(e.effect, e.effectop)
    /\ ~SpecialCase(e.effect)

\* (upper >> 8, (upper & 0xFF) | (op & mask)), the retrig of a zero high
\* nibble with 0x80 set before
TablePair(eff, op) ==
    LET upper == EffectMapXM[eff + 1][1]
        mask  == EffectMapXM[eff + 1][2]
        op2   == IF eff = 29 /\ op \div 16 = 0 THEN BitOr(op, 128) ELSE op
    IN  <<upper \div 256, BitOr(upper % 256, BitAnd(op2, mask))>>

\* the effect and operand of the cell the step stores, if its flags keep
\* the effect
StoredPair ==
    LET cell == thisrow'[CurrentEntry.channel + 1]
    IN  IF BitAnd(cell.xmflag, 24) = 24 THEN <<cell.effect, cell.effectop>>
        ELSE <<>>

NoFixApplies ==
    \/ ~fixCompatibility
    \/ mod.flagAmigaLimits # 0 /\ mod.flagInstrumentBased # 0

OrderTables == {<<0>>, <<1, 0>>, <<0, 2, 1>>, <<255>>, <<1, 255, 0>>}

\* the greatest entry of a table
MaxOf(ord) == CHOOSE v \in {ord[k] : k \in 1..Len(ord)} :
                  \A k \in 1..Len(ord) : ord[k] <= v

\* a module with the patterns 0 to the greatest index of its order table
\* (lines 375-385), each of 64 rows with a note in the first
OrderModules(legacy) ==
    {ModuleOf(1, ord, 0, 0, 6,
              [k \in 1..(MaxOf(ord) + 1) |->
                  RowsPattern(<<NoteEntry(0, 49, 1)>>, 64, legacy)]) :
        ord \in OrderTables}

InitOrder ==
    /\ pc \in {"xm", "s3m"}
    /\ version \in Versions
    /\ IdleScan
    /\ IdleMain
    /\ IdleMod
    /\ mod \in OrderModules(version < VersionCutoff)
    /\ samples = SmallSamples
    /\ instruments = <<>>
    /\ trimInstruments \in BOOLEAN
    /\ fixCompatibility = FALSE
    /\ name = <<>>
    /\ canOpen = TRUE
    /\ IdleFile
    /\ IdleLoops
    /\ IdleXM
    /\ IdleS3M
    /\ IdleDelta

SpecOrder == InitOrder /\ [][NextTrim]_vars

\* the file is an XM file: it begins with "Extended Module"
IsXmFile == ByteAt(out, 0) = XmTitle[1]

\* the pattern count of the header written
WrittenPatternCount ==
    IF IsXmFile THEN U16At(out, Len(XmTitle) + 6)
    ELSE U16At(out, Len(S3mTitle) + 8)

\* the k-th entry of the order table written
WrittenOrder(k) ==
    IF IsXmFile THEN ByteAt(out, Len(XmTitle) + 16 + k)
    ELSE ByteAt(out, Len(S3mTitle) + 68 + k)

\* the header of a finished file agrees with the order table of the module
PatternCountCovers ==
    (pc = "done" /\ result = 0) =>
        /\ patternCount = 1 + MaxOf(mod.order)
        /\ WrittenPatternCount = 1 + MaxOf(mod.order)
        /\ \A k \in 0..(mod.numOrders - 1) :
              /\ WrittenOrder(k) = mod.order[k + 1]
              /\ WrittenOrder(k) < WrittenPatternCount
        /\ IsXmFile => Len(patternSizes) = WrittenPatternCount

\* C28: for every effective order table, one containing the pattern index
\* 255 included, the pattern count of the XM and S3M writers is 1 + the
\* greatest entry of the table, so every order entry written to the header
\* is less than the pattern count written and refers to an emitted pattern.
C28_PatternCount == PatternCountCovers

\* the same for the order tables whose entries stay below 255
C28_PatternCountBelow255 == MaxOf(mod.order) < 255 => PatternCountCovers

\* a file was written for an order table containing 255
C28_Wrapped ==
    /\ pc = "done"
    /\ result = 0
    /\ MaxOf(mod.order) = 255
    /\ WrittenPatternCount = 0

(***************************************************************************)
(* readPatternFile as a state machine (unkrawerter.cpp lines 318-360), on  *)
(* the pattern at offset 0 of the ROM.                                     *)
(***************************************************************************)
\* what the pattern reader leaves alone
PatternFrame ==
    UNCHANGED <<mainVars, version, rom, threshold, feofFlag, lastDword, startAddress,
                count, foundAddressLists, retval, romModule, numOrders, order,
                markerAdd, oi, jobVars, fileVars, patternCount, pidx, dataPos,
                warnings, xmVars, s3mVars, deltaVars>>

\* (unsigned char)fgetc(fp) at position p: 0xFF at the end of the file
NextByte(p) == Fgetc(rom, p) % 256

\* the position after n calls of fgetc from p: the end of the file is not
\* passed
PosAfterGets(p, n) == IF p + n <= Len(rom) THEN p + n ELSE Max(p, Len(rom))

\* the bytes the vector can hold before an allocation fails
MemoryLimit == 16

\* lines 319-326: seek to the row count and read it
PatternOpen ==
    /\ pc = "readpattern"
    /\ patternRows' = IF Legacy THEN U16(Fgetc(rom, fpos + 32))
                      ELSE Fread(rom, fpos + 32, 2, 0)
    /\ fpos' = PosAfterGets(fpos + 32, IF Legacy THEN 1 ELSE 2)
    /\ row' = 0
    /\ s3mlength' = 0
    /\ fileContents' = <<>>
    /\ pc' = "pattern_rows"
    /\ PatternFrame

\* the bytes of the entry whose follow byte is at fpos: lines 328-348
EntryBytes ==
    LET follow  == NextByte(fpos)
        noteLen == IF BitAnd(follow, 32) = 0 THEN 0
                   ELSE IF ~Legacy /\ NextByte(PosAfterGets(fpos, 1)) >= 128 THEN 3
                   ELSE 2
        len     == 1 + noteLen + (IF BitAnd(follow, 64) # 0 THEN 1 ELSE 0)
                     + (IF BitAnd(follow, 128) # 0 THEN 2 ELSE 0)
    IN  [j \in 1..len |-> NextByte(PosAfterGets(fpos, j - 1))]

\* what the entry adds to s3mlength: the third note byte is not counted
EntryS3MBytes ==
    LET follow == NextByte(fpos)
    IN  1 + (IF BitAnd(follow, 32) # 0 THEN 2 ELSE 0)
          + (IF BitAnd(follow, 64) # 0 THEN 1 ELSE 0)
          + (IF BitAnd(follow, 128) # 0 THEN 2 ELSE 0)

\* one round of the loop of line 327 on a follow byte that is not 0
PatternEntry ==
    /\ pc = "pattern_rows"
    /\ row < patternRows
    /\ Len(fileContents) < MemoryLimit
    /\ NextByte(fpos) # 0
    /\ fileContents' = fileContents \o EntryBytes
    /\ s3mlength' = U16(s3mlength + EntryS3MBytes)
    /\ fpos' = PosAfterGets(fpos, Len(EntryBytes))
    /\ UNCHANGED <<pc, patternRows, row>>
    /\ PatternFrame

\* the follow byte 0 ends the row: line 331
PatternRowEnd ==
    /\ pc = "pattern_rows"
    /\ row < patternRows
    /\ Len(fileContents) < MemoryLimit
    /\ NextByte(fpos) = 0
    /\ fileContents' = Append(fileContents, 0)
    /\ s3mlength' = U16(s3mlength + 1)
    /\ fpos' = PosAfterGets(fpos, 1)
    /\ row' = row + 1
    /\ UNCHANGED <<pc, patternRows>>
    /\ PatternFrame

\* push_back cannot allocate: std::bad_alloc, which nothing catches
PatternExhausted ==
    /\ pc = "pattern_rows"
    /\ row < patternRows
    /\ Len(fileContents) >= MemoryLimit
    /\ pc' = "aborted"
    /\ UNCHANGED <<fpos, row, patVars>>
    /\ PatternFrame

\* lines 351-359: the Pattern is built and returned
PatternReturn ==
    /\ pc = "pattern_rows"
    /\ ~(row < patternRows)
    /\ pc' = "patternread"
    /\ UNCHANGED <<fpos, row, patVars>>
    /\ PatternFrame

NextPattern ==
    \/ PatternOpen
    \/ PatternEntry
    \/ PatternRowEnd
    \/ PatternExhausted
    \/ PatternReturn

\* the follow bytes tried: a row end, an entry of a channel alone, with a
\* note, with a note and an effect, with everything
PatternBytes == {0, 1, 32, 160, 255}

MaxStream == 4

MaxPatternRows == 2

PatternStreams == UNION {SeqsOfLen(PatternBytes, n) : n \in 0..MaxStream}

\* the index of a Pattern, the row count in the format of the version, and
\* the note stream up to the end of the ROM; ROMs that end before the stream
PatternRoms(legacy) ==
    {Zeros(32) \o (IF legacy THEN <<n>> ELSE LE16(n)) \o d :
        n \in 0..MaxPatternRows, d \in PatternStreams}
    \cup {Zeros(0), Zeros(32), Zeros(32) \o <<1>>}

InitPattern ==
    /\ pc = "readpattern"
    /\ version \in Versions
    /\ IdleMain
    /\ rom \in PatternRoms(version < VersionCutoff)
    /\ threshold = 0
    /\ fpos = 0
    /\ feofFlag = FALSE
    /\ lastDword = 0
    /\ startAddress = 0
    /\ count = 0
    /\ foundAddressLists = <<>>
    /\ retval = EmptyResult
    /\ IdleMod
    /\ IdleWriter

\* readPatternFile on a pattern, or the marker filter of readModuleFile on
\* a Module header
InitRead == InitPattern \/ InitMod

NextRead == NextPattern \/ NextMod

SpecRead == InitRead /\ [][NextRead]_vars

\* every step that can be taken is taken
SpecReadLive == SpecRead /\ WF_vars(NextRead)

\* C29: readPatternFile returns for every ROM content and row count, also
\* when the note stream reaches the end of the ROM before a zero follow
\* byte, and the marker loop of readModuleFile ends for every order table.
C29_ReadersReturn == <>(pc \in {"patternread", "filtered"})

\* the marker loop ends, and readPatternFile returns or runs out of memory
C29_ReturnsOrAborts == <>(pc \in {"patternread", "filtered", "aborted"})

\* readPatternFile does not return once the end of the ROM is read as a
\* follow byte: the row never ends
C29_NoReturnPastEnd ==
    [][(pc = "pattern_rows" /\ row < patternRows /\ fpos >= Len(rom)) =>
          (pc' = "aborted" \/ (pc' = "pattern_rows" /\ row' = row))]_vars

\* the Pattern returned is the one ReadPatternFile computes
C29_ReturnedPattern ==
    (pc = "patternread" /\ Len(rom) >= 34) =>
        LET p == ReadPatternFile(SubSeq(rom, 33, Len(rom)), Legacy)
        IN  /\ ~p.hang
            /\ p.rows = patternRows
            /\ p.s3mlength = s3mlength
            /\ p.data = fileContents

\* the reader ran out of memory at the end of a ROM whose only row has no
\* zero follow byte
C29_Aborted ==
    /\ pc = "aborted"
    /\ patternRows = 1
    /\ row = 0
    /\ fpos = Len(rom)

(***************************************************************************)
(* The pan fix of lines 784-808 over a run of rows of one channel.         *)
(***************************************************************************)
\* the first row: a pan effect (Krawall 34, or the old pan 42), or a note
PanRunFirst ==
    {EffectEntry(0, 34, p) : p \in {0, 16, 32, 64, 127}}
    \cup {EffectEntry(0, 42, 4), NoteEntry(0, 48, 1)}

\* the rows after it: notes of two instruments, and a volume effect
PanRunLater == {NoteEntry(0, 49, 1), NoteEntry(0, 50, 2), EffectEntry(0, 18, 64)}

PanRunModules(legacy) ==
    {ModuleOf(1, <<0>>, ib, 1, 6,
              <<PatternOf(<<a, EndRow, b, EndRow, c, EndRow, d>>, legacy)>>) :
        ib \in {0, 1}, a \in PanRunFirst, b \in PanRunLater, c \in PanRunLater,
        d \in PanRunLater}

InitPanRun == InitXMWith(PanRunModules)

SpecPanRun == InitPanRun /\ [][NextXM]_vars

\* a step that stores a cell whose source carries no pan effect, with the
\* pan fix on
NoPanEntryStep ==
    /\ EntryStep
    /\ fixCompatibility
    /\ mod.flagInstrumentBased = 0
    /\ ~(CurrentEntry.hasEff
            /\ IsPanEffect(EmittedEffect.effect, EmittedEffect.effectop))

\* the step gives a cell without an effect the effect 0x08
SynthesisesPan ==
    /\ NoPanEntryStep
    /\ ~CurrentEntry.hasEff
    /\ BitAnd(thisrow'[CurrentEntry.channel + 1].xmflag, 24) = 24
    /\ thisrow'[CurrentEntry.channel + 1].effect = 8

\* C30: with fixCompatibility on and flagInstrumentBased clear, a source
\* cell without a pan effect leaves the remembered pan of its channel
\* unchanged, and the operand of a synthesised 0x08 effect is the
\* remembered pan, so that the synthesised cells of a run of rows without
\* pan effects all carry the same operand.
C30_PanMemoryStable ==
    [][/\ NoPanEntryStep =>
             memory'[CurrentEntry.channel + 1].pan
                 = memory[CurrentEntry.channel + 1].pan
       /\ SynthesisesPan =>
             thisrow'[CurrentEntry.channel + 1].effectop
                 = memory[CurrentEntry.channel + 1].pan]_vars

\* what lines 790-791 and 805 do: the operand is the remembered pan
\* doubled, and the doubled value is remembered
C30_SynthesisedDoubled ==
    [][SynthesisesPan =>
          /\ thisrow'[CurrentEntry.channel + 1].effectop
                = U8(2 * memory[CurrentEntry.channel + 1].pan)
          /\ memory'[CurrentEntry.channel + 1].pan
                = U8(2 * memory[CurrentEntry.channel + 1].pan)]_vars

\* without a synthesised effect the remembered pan is kept
C30_KeptOtherwise ==
    [][(NoPanEntryStep /\ ~SynthesisesPan) =>
          memory'[CurrentEntry.channel + 1].pan
              = memory[CurrentEntry.channel + 1].pan]_vars

\* the third row of a run after the pan 0x20 got the synthesised operand
\* 0x80, the second row had got 0x40
C30_Drifted ==
    /\ pc = "xm_row"
    /\ fixCompatibility
    /\ mod.flagInstrumentBased = 0
    /\ mod.patterns[1] = PatternOf(<<EffectEntry(0, 34, 16), EndRow,
                                     NoteEntry(0, 49, 1), EndRow,
                                     NoteEntry(0, 50, 2), EndRow,
                                     NoteEntry(0, 49, 1)>>, Legacy)
    /\ row = 2
    /\ thisrow[1].effect = 8
    /\ thisrow[1].effectop = 128
    /\ memory[1].pan = 128

====
